---- MODULE Spec2Model ----
(***************************************************************************)
(* A model of the graph-js line chart library: the Axis constructor        *)
(* (src/src/core/axis.js), the assert helper and the BasicGraph layout     *)
(* (src/src/utils/assert.js), the array helpers (src/unnamed/part_000),    *)
(* the Drawer (src/unnamed/part_003), the LegendManager                    *)
(* (src/unnamed/part_002) and setData and _drawData of the earlier         *)
(* BasicGraph (src/src/basic.graph.js).                                    *)
(*                                                                         *)
(* JavaScript numbers are modelled as exact rationals [n, d] in lowest     *)
(* terms with d > 0; floating point rounding is outside the model.         *)
(* The Scale class (core/scale.js) and the AxisManager are not among the   *)
(* source files; they are modelled from spec.md sections 4.1 and 4.3.      *)
(***************************************************************************)
EXTENDS Integers, Sequences, FiniteSets, TLC

(***************************************************************************)
(* Bounds of the model.                                                    *)
(***************************************************************************)
\* nice steps range over {1,2,5} * 10^k for k in -NiceExp .. NiceExp
NiceExp == 2
\* the largest scale.x.ticks / scale.y.ticks option explored
MaxTicks == 5
\* the longest series (dataManager.maxLen()) explored is MaxSeries
MaxSeries == 5
\* the longest scale.x.tickLabels array explored
MaxTickLabels == 2
\* the largest number of distinct Y values of a data set
MaxData == 3
\* the largest number of draw() calls on one graph
MaxDraws == 2
\* the largest number of lines (legend entries) of a graph with a legend
MaxEntries == 2
\* the largest number of points of a line drawn by _drawData()
MaxPoints == 4

(***************************************************************************)
(* Rational arithmetic.                                                    *)
(***************************************************************************)
Abs(n) == IF n < 0 THEN -n ELSE n

RECURSIVE GCD(_, _)
GCD(a, b) == IF b = 0 THEN a ELSE GCD(b, a % b)

\* the rational n/d (d # 0) in lowest terms with a positive denominator
Reduce(n, d, g) ==
    IF d < 0 THEN [n |-> (-n) \div g, d |-> (-d) \div g]
    ELSE [n |-> n \div g, d |-> d \div g]

Rat(n, d) == Reduce(n, d, GCD(Abs(n), Abs(d)))

RInt(i) == [n |-> i, d |-> 1]
Zero == RInt(0)
One == RInt(1)
\* 'undefined' where a number is expected (an option that was not given)
RNull == [n |-> 0, d |-> 0]

RAdd(a, b) == Rat(a.n * b.d + b.n * a.d, a.d * b.d)
RNeg(a) == [n |-> -a.n, d |-> a.d]
RSub(a, b) == RAdd(a, RNeg(b))
RMul(a, b) == Rat(a.n * b.n, a.d * b.d)
RDiv(a, b) == Rat(a.n * b.d, a.d * b.n)
RLt(a, b) == a.n * b.d < b.n * a.d
RLe(a, b) == a.n * b.d <= b.n * a.d
RMax(a, b) == IF RLt(a, b) THEN b ELSE a
RMin(a, b) == IF RLt(b, a) THEN b ELSE a
\* Math.floor
RFloor(a) == a.n \div a.d
\* Math.ceil
RCeil(a) == -((-a.n) \div a.d)
\* Math.round: the nearest integer, halves upwards
RRound(a) == (2 * a.n + a.d) \div (2 * a.d)
\* x % 1 === 0
RIsInt(a) == a.d = 1

RECURSIVE Pow10(_)
Pow10(k) == IF k = 0 THEN 1 ELSE 10 * Pow10(k - 1)

(***************************************************************************)
(* Labels.  Number.prototype.toString is modelled as the decimal text of   *)
(* the rational, kept as the pair (n, d); -0 prints as "0", as 0 does.     *)
(* A label that is not the text of a number carries its text in s.         *)
(***************************************************************************)
toString(r) == [n |-> r.n, d |-> r.d, s |-> ""]
Text(str) == [n |-> 0, d |-> 0, s |-> str]
\* the label "0"
ZeroLabel == toString(Zero)
\* the label read from tickLabels[NaN], i.e. undefined
UndefinedLabel == Text("undefined")
IsNumeric(l) == l.d # 0
\* parseFloat of a numeric label
parseFloat(l) == [n |-> l.n, d |-> l.d]

(***************************************************************************)
(* src/unnamed/part_000: array helpers.                                    *)
(***************************************************************************)
\* fillRange(max): [0, 1, ..., max - 1]
fillRange(max) == [i \in 1..max |-> i - 1]

negativeValues(array) == SelectSeq(array, LAMBDA v : v < 0)

positiveAndZeroValues(array) == SelectSeq(array, LAMBDA v : v >= 0)

Range(s) == {s[i] : i \in DOMAIN s}

\* getMax(arr): the maximum element (of a non-empty array)
getMax(arr) == CHOOSE m \in Range(arr) : \A v \in Range(arr) : v <= m

\* getMinMax(arr): {min, max} (of a non-empty array)
getMinMax(arr) ==
    [min |-> CHOOSE m \in Range(arr) : \A v \in Range(arr) : m <= v,
     max |-> getMax(arr)]

(***************************************************************************)
(* src/src/utils/assert.js: assert(condition, message).                    *)
(* "pass": the condition holds; "warn": it fails and the failure is only   *)
(* logged (config.bypassOutOfBoundsDrawing); "throw": an Error is thrown.  *)
(***************************************************************************)
assert(condition, bypass) ==
    IF condition THEN "pass"
    ELSE IF bypass THEN "warn" ELSE "throw"

(***************************************************************************)
(* Scale (core/scale.js), from spec.md section 4.1.                        *)
(***************************************************************************)
\* the steps {1, 2, 5, 10} * 10^k
NiceSteps ==
    {Rat(m * Pow10(k + NiceExp), Pow10(NiceExp)) :
        m \in {1, 2, 5}, k \in (-NiceExp)..NiceExp}

\* the step of the sequence {1,2,5,10} * 10^k nearest to x, rounded up
niceNum(x) ==
    CHOOSE s \in NiceSteps :
        /\ RLe(x, s)
        /\ \A t \in NiceSteps : RLe(x, t) => RLe(s, t)

NullScale ==
    [err |-> "null", min |-> Zero, max |-> Zero, tickCount |-> Zero,
     scaleStep |-> Zero, roundedMinimum |-> Zero, isNegativeScale |-> FALSE]

\* the step before minimumScaleStep is applied: the nice step of the raw
\* step, or the raw step itself when optimiseTicks is false
rawOrNiceStep(raw, optimiseTicks) ==
    IF optimiseTicks THEN niceNum(raw) ELSE raw

\* the step of a scale: minimumScaleStep ?? 1 for a degenerate extent,
\* else the step, raised to minimumScaleStep when that is given
boundedStep(st, degenerate, minimumScaleStep) ==
    IF degenerate
    THEN (IF minimumScaleStep = RNull THEN One ELSE minimumScaleStep)
    ELSE IF minimumScaleStep # RNull /\ RLt(st, minimumScaleStep)
         THEN minimumScaleStep
         ELSE st

\* roundedMinimum = floor(min / step) * step
roundedMinimum(min, step) ==
    RMul(RInt(RFloor(RDiv(RInt(min), step))), step)

\* new Scale({min, max, tickCount, minimumScaleStep, optimiseTicks,
\* isNegativeScale}); min and max are integers, tickCount is a rational,
\* minimumScaleStep is RNull when it is not given.  max = min is treated as
\* max = min + 1.
ScaleWithStep(min, max, tickCount, step, isNegativeScale) ==
    [err |-> "none", min |-> RInt(min), max |-> RInt(max),
     tickCount |-> tickCount, scaleStep |-> step,
     roundedMinimum |-> roundedMinimum(min, step),
     isNegativeScale |-> isNegativeScale]

ScaleOver(min, max, tickCount, minStep, optimiseTicks, degenerate, isNeg) ==
    ScaleWithStep(min, max, tickCount,
                  boundedStep(rawOrNiceStep(RDiv(RInt(max - min), tickCount),
                                            optimiseTicks),
                              degenerate, minStep),
                  isNeg)

Scale(min, max, tickCount, minimumScaleStep, optimiseTicks, isNegativeScale) ==
    IF ~RLt(Zero, tickCount)
    THEN [NullScale EXCEPT !.err = "ConfigError"]
    ELSE ScaleOver(min, IF max = min THEN min + 1 ELSE max, tickCount,
                   minimumScaleStep, optimiseTicks, max = min,
                   isNegativeScale)

\* Scale.getScaleStep()
getScaleStep(scale) == scale.scaleStep

\* Scale.getTickCount()
getTickCount(scale) == scale.tickCount

\* Scale.setTickStep(step): the labels are rebuilt with the new step
setTickStep(scale, step) == [scale EXCEPT !.scaleStep = step]

\* the value of tick i of a scale: roundedMinimum + i * step
tickValue(scale, i) ==
    RAdd(scale.roundedMinimum, RMul(RInt(i), scale.scaleStep))

\* Scale.getScaleLabels(): roundedMinimum + i*step for i in [0, tickCount];
\* a negative scale negates the values and lists them descending to zero
scaleLabelsUpTo(scale, last) ==
    IF scale.isNegativeScale
    THEN [j \in 1..(last + 1) |->
             toString(RNeg(tickValue(scale, last + 1 - j)))]
    ELSE [j \in 1..(last + 1) |-> toString(tickValue(scale, j - 1))]

getScaleLabels(scale) == scaleLabelsUpTo(scale, RFloor(scale.tickCount))

(***************************************************************************)
(* src/src/core/axis.js: the Axis class.                                   *)
(***************************************************************************)
X_AXIS == "x-axis"
Y_AXIS == "y-axis"

\* an Axis object before its constructor ran.  err is "none" while no error
\* was thrown; warned counts the assertion failures that were only logged;
\* computed records that _computeAxisScale() was entered.
NullAxis ==
    [type |-> "", err |-> "null", warned |-> 0, computed |-> FALSE,
     scaleStep |-> Zero, positveScale |-> NullScale,
     negativeScale |-> NullScale, scaleLabels |-> <<>>]

\* the step both scales of a split Y axis are set to (Math.max of the two)
syncStepPositiveOnly(positveScale, negativeScale) ==
    getScaleStep(positveScale)

syncStep(positveScale, negativeScale) ==
    RMax(getScaleStep(positveScale), getScaleStep(negativeScale))

\* the tick count handed to a Y scale
yTickCount(ticks, managerNegativeScale) ==
    IF managerNegativeScale THEN Rat(ticks, 2) ELSE RInt(ticks)

\* _computeAxisScale(), X axis: the scale over [0, maxLen - 1]
xAxisScaled(axis, pos) ==
    IF pos.err # "none"
    THEN [axis EXCEPT !.err = pos.err]
    ELSE [axis EXCEPT !.positveScale = pos, !.scaleStep = getScaleStep(pos)]

\* _computeAxisScale(), Y axis with negatives: both scales get the step
ySynchronised(axis, pos, neg, step) ==
    [axis EXCEPT !.scaleStep = step,
                 !.positveScale = setTickStep(pos, step),
                 !.negativeScale = setTickStep(neg, step)]

\* _computeAxisScale(), Y axis: the negative scale is built first, then
\* the positive one
yAxisScaled(axis, pos, neg, managerNegativeScale) ==
    IF managerNegativeScale /\ neg.err # "none"
    THEN [axis EXCEPT !.err = neg.err]
    ELSE IF pos.err # "none"
    THEN [axis EXCEPT !.err = pos.err, !.negativeScale = neg]
    ELSE IF managerNegativeScale
    THEN ySynchronised(axis, pos, neg, syncStep(pos, neg))
    ELSE [axis EXCEPT !.scaleStep = getScaleStep(pos), !.positveScale = pos]

\* negativeValues(data).map(Math.abs)
negativeDataSet(negatives) ==
    [i \in DOMAIN negatives |-> Abs(negatives[i])]

\* the negative scale of a Y axis, over the absolute negative values
yNegativeScale(data, ticks, managerNegativeScale) ==
    IF managerNegativeScale
    THEN Scale(0, getMax(negativeDataSet(negativeValues(data))),
               yTickCount(ticks, TRUE), RNull, TRUE, TRUE)
    ELSE NullScale

\* the positive scale of a Y axis, over the non-negative values
yPositiveScale(mm, ticks, managerNegativeScale) ==
    Scale(mm.min, mm.max, yTickCount(ticks, managerNegativeScale),
          RNull, TRUE, FALSE)

\* Axis._computeAxisScale(); axis.computed records that it was entered
computeAxisScale(axis, data, maxLen, opts, managerNegativeScale) ==
    IF axis.type = X_AXIS
    THEN xAxisScaled([axis EXCEPT !.computed = TRUE],
                     Scale(0, maxLen - 1, RInt(opts.ticks - 1), One,
                           opts.optimiseTicks, FALSE))
    ELSE IF axis.type = Y_AXIS
    THEN yAxisScaled([axis EXCEPT !.computed = TRUE],
                     yPositiveScale(getMinMax(positiveAndZeroValues(data)),
                                    opts.ticks, managerNegativeScale),
                     yNegativeScale(data, opts.ticks, managerNegativeScale),
                     managerNegativeScale)
    ELSE [axis EXCEPT !.computed = TRUE, !.err = "Error"]

\* the index into tickLabels of the label of tick index (0-based)
tickLabelIndexClamped(index, length) ==
    IF index < length THEN index ELSE length - 1

tickLabelIndex(index, length) == index % length

\* the Y labels of a split axis: the negative labels, without their last
\* entry when that is "0" and the positive labels have a "0" too, followed
\* by the positive labels
joinNoDedup(negLabels, posLabels) == negLabels \o posLabels

joinScaleLabels(negLabels, posLabels) ==
    IF /\ negLabels[Len(negLabels)] = ZeroLabel
       /\ \E i \in DOMAIN posLabels : posLabels[i] = ZeroLabel
    THEN SubSeq(negLabels, 1, Len(negLabels) - 1) \o posLabels
    ELSE negLabels \o posLabels

\* generateScaleNumbers(), X axis with tickLabels: n labels, cycled
customLabels(axis, items, chk, n) ==
    IF chk = "throw"
    THEN [axis EXCEPT !.err = "AssertionError"]
    ELSE IF chk = "warn"
    \* index % 0 is NaN and tickLabels[NaN] is undefined
    THEN [axis EXCEPT !.warned = @ + 1,
                      !.scaleLabels = [i \in 1..n |-> UndefinedLabel]]
    ELSE [axis EXCEPT !.scaleLabels =
             [i \in 1..n |-> items[tickLabelIndex(i - 1, Len(items)) + 1]]]

\* generateScaleNumbers(), X axis without tickLabels: scaleStep * x for x
\* in fillRange(tickCount + 1)
indexLabels(axis, range) ==
    [axis EXCEPT !.scaleLabels =
        [i \in DOMAIN range |->
            toString(RMul(axis.positveScale.scaleStep, RInt(range[i])))]]

\* Axis.generateScaleNumbers()
generateScaleNumbers(axis, opts, managerNegativeScale, bypass) ==
    IF axis.type = X_AXIS
    THEN
        IF opts.tickLabels.isArray /\ opts.drawLabels
        THEN customLabels(axis, opts.tickLabels.items,
                          assert(Len(opts.tickLabels.items) > 0, bypass),
                          Len(getScaleLabels(axis.positveScale)))
        ELSE indexLabels(axis,
                 fillRange(RFloor(getTickCount(axis.positveScale)) + 1))
    ELSE
        IF managerNegativeScale
        THEN [axis EXCEPT !.scaleLabels =
                 joinScaleLabels(getScaleLabels(axis.negativeScale),
                                 getScaleLabels(axis.positveScale))]
        ELSE [axis EXCEPT !.scaleLabels = getScaleLabels(axis.positveScale)]

\* the constructor after _computeAxisScale(): an error ends it
afterComputeAxisScale(axis, opts, managerNegativeScale, bypass) ==
    IF axis.err # "none"
    THEN axis
    ELSE generateScaleNumbers(axis, opts, managerNegativeScale, bypass)

\* the constructor after assert(options.ticks > 0)
afterTicksCheck(type, data, maxLen, opts, managerNegativeScale, bypass, chk) ==
    IF chk = "throw"
    THEN [NullAxis EXCEPT !.type = type, !.err = "AssertionError"]
    ELSE afterComputeAxisScale(
             computeAxisScale(
                 [NullAxis EXCEPT !.type = type, !.err = "none",
                                  !.warned = IF chk = "warn" THEN 1 ELSE 0],
                 data, maxLen, opts, managerNegativeScale),
             opts, managerNegativeScale, bypass)

\* new Axis(manager, type, options)
Axis(type, data, maxLen, opts, managerNegativeScale, bypass) ==
    afterTicksCheck(type, data, maxLen, opts, managerNegativeScale, bypass,
                    assert(opts.ticks > 0, bypass))

(***************************************************************************)
(* AxisManager (core/axis-manager.js), from spec.md section 4.3.           *)
(***************************************************************************)
\* manager.negativeScale = any(yData < 0)
negativeScale(data) == \E i \in DOMAIN data : data[i] < 0

(***************************************************************************)
(* src/src/utils/assert.js: the BasicGraph class (layout).                 *)
(***************************************************************************)
\* the length of the axis ticks (the constant 9 of the source)
TickLength == 9
\* padding.textPadding as set by the constructor
TextPadding == 4

\* the padding object the constructor starts from
initialPadding(opts) ==
    [top |-> RInt(opts.padding), left |-> Zero, right |-> RInt(opts.padding),
     bottom |-> Zero, textPadding |-> RInt(TextPadding)]

\* calculatePadding() up to the legend: width holds the measured widths of
\* the longest Y label and of the last X label
measuredPadding(pad, opts, width) ==
    [pad EXCEPT
        !.top = IF opts.title.draw
                THEN RAdd(@, RAdd(RInt(opts.title.fontSize), pad.textPadding))
                ELSE @,
        !.left = RInt(RCeil(RAdd(RInt(opts.padding + TickLength),
                                 RAdd(RMul(RInt(3), pad.textPadding),
                                      width.yLongest)))),
        !.right = IF ~opts.legend.draw \/ opts.legend.position # "right"
                  THEN RInt(RCeil(width.xLast))
                  ELSE @,
        !.bottom = RInt(RCeil(RAdd(RInt(TickLength + 2 * opts.labelFontSize),
                                   RMul(RInt(3), pad.textPadding))))]

\* calculatePadding(): padding[legendManager.position] += requiredSpace
legendPadding(pad, opts, lm) ==
    IF opts.legend.draw
    THEN [pad EXCEPT ![lm.position] = RAdd(@, lm.requiredSpace)]
    ELSE pad

\* BasicGraph.calculatePadding()
calculatePadding(pad, opts, width, lm) ==
    legendPadding(measuredPadding(pad, opts, width), opts, lm)

\* xLength as the constructor and calculateLengths() compute it
computeXLength(cv, pad, opts) ==
    RSub(RInt(cv.width),
         RAdd(RAdd(pad.right, pad.left), RInt(opts.labelFontSize)))

\* yLength as the constructor computes it before the grid is sized
constructorYLength(cv, pad) ==
    RSub(RInt(cv.height), RAdd(pad.top, pad.bottom))

\* the cell size the constructor derives from the lengths and label counts
rawGridRectSize(cv, pad, opts, xLabels, yLabels) ==
    [x |-> RDiv(computeXLength(cv, pad, opts), RInt(Len(xLabels) - 1)),
     y |-> RDiv(constructorYLength(cv, pad), RInt(Len(yLabels) - 1))]

\* strict grid mode: the smaller of the two cell sizes, for both
strictLengthMax(rect) == RMax(rect.x, rect.y)

strictGridRectLength(rect) == RMin(rect.x, rect.y)

applyStrict(rect, opts) ==
    IF opts.grid.strict
    THEN [x |-> strictGridRectLength(rect), y |-> strictGridRectLength(rect)]
    ELSE rect

\* yLength as calculateLengths() computes it
computeYLength(cv, pad, opts) ==
    RSub(RInt(cv.height),
         RAdd(RAdd(pad.top, pad.bottom), RInt(opts.labelFontSize)))

\* the lengths object of calculateLengths()
lengthsOf(cv, pad, opts, xl, yl) ==
    [x_begin  |-> RAdd(pad.left, RInt(opts.labelFontSize)),
     y_begin  |-> pad.top,
     x_end    |-> RSub(RInt(cv.width), pad.right),
     y_end    |-> RSub(RInt(cv.height), pad.bottom),
     x_center |-> RAdd(RAdd(pad.left, RInt(opts.labelFontSize)),
                       RDiv(xl, RInt(2))),
     y_center |-> RAdd(RAdd(pad.top, RDiv(RInt(opts.labelFontSize), RInt(2))),
                       RDiv(yl, RInt(2)))]

\* BasicGraph.calculateLengths(): [xLength, yLength, lengths]
lengthsRecord(cv, pad, opts, xl, yl) ==
    [xLength |-> xl, yLength |-> yl,
     lengths |-> lengthsOf(cv, pad, opts, xl, yl)]

calculateLengths(cv, pad, opts) ==
    lengthsRecord(cv, pad, opts, computeXLength(cv, pad, opts),
                  computeYLength(cv, pad, opts))

\* draw(): Math.round(gridRectSize.x), or one less when it is a round-up
\* that the right padding cannot take
roundedAlways(x, rounded, padRight, numberOfSquares) == rounded

roundedOrLess(x, rounded, padRight, numberOfSquares) ==
    IF /\ RLt(x, rounded)
       /\ RLt(RSub(padRight, RMul(RSub(rounded, x), RInt(numberOfSquares))),
              Zero)
    THEN RSub(rounded, One)
    ELSE rounded

\* draw(): the integer cell size chosen for a fractional gridRectSize.x
roundedWithoutPadding(x, padRight, numberOfSquares) ==
    roundedOrLess(x, RInt(RRound(x)), Zero, numberOfSquares)

preferredSquareSize(x, padRight, numberOfSquares) ==
    roundedOrLess(x, RInt(RRound(x)), padRight, numberOfSquares)

\* draw(): the cell sizes after the snap; strict mode sets y as well
snapXOnly(rect, preferred, opts) == [rect EXCEPT !.x = preferred]

snapGridRectSize(rect, preferred, opts) ==
    [x |-> preferred,
     y |-> IF opts.grid.strict THEN preferred ELSE rect.y]

\* draw(): gridRectSize.x is a fraction that is to be snapped
needsSnap(rect, opts) == opts.grid.optimiseSquareSize /\ ~RIsInt(rect.x)

(***************************************************************************)
(* src/unnamed/part_003: the Drawer class.  A request is a record          *)
(* [kind, x, y, len]; len is used by the two line requests only.           *)
(***************************************************************************)
Request(kind, x, y, len) == [kind |-> kind, x |-> x, y |-> y, len |-> len]

\* 0 <= v <= limit
withinBounds(v, limit) == RLe(Zero, v) /\ RLe(v, RInt(limit))

\* _coordinateSafetyCheck(x, y): the outcomes of its two assertions
coordinateSafetyCheck(x, y, cv) ==
    <<withinBounds(x, cv.width), withinBounds(y, cv.height)>>

\* the assertion on the far end of a line: horizontalLine compares x + len
\* with canvas.width, and verticalLine compares y + len with canvas.width
endCheck(req, cv) ==
    IF req.kind = "horizontalLine"
    THEN <<withinBounds(RAdd(req.x, req.len), cv.width)>>
    ELSE IF req.kind = "verticalLine"
    THEN <<withinBounds(RAdd(req.y, req.len), cv.width)>>
    ELSE <<>>

\* the conditions a request asserts, in the order of the code
requestChecks(req, cv) ==
    coordinateSafetyCheck(req.x, req.y, cv) \o endCheck(req, cv)

\* the number of assertions of a request that fail
failedCount(checks) == Cardinality({i \in DOMAIN checks : ~checks[i]})

\* one request handled by the Drawer: an assertion that fails throws, or is
\* only logged under bypass; the context commands follow unless it threw
requestOutcomeOf(failed, bypass) ==
    [err    |-> IF failed > 0 /\ ~bypass THEN "Error" ELSE "none",
     warned |-> IF bypass THEN failed ELSE 0,
     issued |-> failed = 0 \/ bypass]

requestOutcome(req, cv, bypass) ==
    requestOutcomeOf(failedCount(requestChecks(req, cv)), bypass)

\* the context commands of a request
contextCommands(req) ==
    IF req.kind = "circle"
    THEN <<"beginPath", "arc", "fill", "closePath">>
    ELSE IF req.kind = "text"
    THEN <<"fillText">>
    ELSE <<"beginPath", "moveTo", "lineTo", "stroke", "closePath">>

(***************************************************************************)
(* src/unnamed/part_002: the LegendManager class.  A legend entry is a     *)
(* record [label, chars, width]: chars is label.toString().length and      *)
(* width is what ctx.measureText(label) reports for it.                    *)
(***************************************************************************)
\* LegendManager.PADDING
PADDING == 8

\* LegendManager.Pos and LegendManager.Alignment
Pos == {"left", "right", "top", "bottom"}
Alignment == {"start", "center", "end"}

\* an option that was not given (undefined)
Undefined == "undefined"

\* the position of the legend: options.legend.position ?? "top", replaced
\* by "top" when it is not one of Pos
legendPositionUnchecked(setting) ==
    IF setting = Undefined THEN "top" ELSE setting

legendPosition(setting) ==
    IF setting = Undefined THEN "top"
    ELSE IF setting \in Pos THEN setting ELSE "top"

\* the alignment of the legend: options.legend.alignment ?? "center",
\* replaced by "center" when it is not one of Alignment
legendAlignment(setting) ==
    IF setting = Undefined THEN "center"
    ELSE IF setting \in Alignment THEN setting ELSE "center"

\* this.boxSize
boxSize(opts) == opts.labelFontSize + 4

\* arrays.longest(arr): reduce keeping the accumulator a only while
\* a.toString().length > b.toString().length
RECURSIVE longestFrom(_, _, _)
longestFrom(arr, i, a) ==
    IF i > Len(arr) THEN a
    ELSE longestFrom(arr, i + 1, IF a.chars > arr[i].chars THEN a ELSE arr[i])

longest(arr) == longestFrom(arr, 2, arr[1])

\* arrays.sum(arr)
RECURSIVE sum(_)
sum(arr) == IF arr = <<>> THEN Zero ELSE RAdd(arr[1], sum(Tail(arr)))

\* LegendManager.getRequiredSpaceFor(item)
getRequiredSpaceFor(item, opts) ==
    RAdd(RInt(2 * PADDING + boxSize(opts)), item.width)

isVertical(position) == position \in {"left", "right"}

\* no legend manager (options.legend.draw is false)
NullLegend ==
    [err |-> "null", position |-> "", alignment |-> "", boxSize |-> 0,
     requiredSpace |-> Zero, data |-> <<>>]

\* the constructor from the position on: a vertical legend needs the
\* longest label, and reduce() of an empty array throws a TypeError
legendWithPosition(position, alignment, opts, entries) ==
    [err |-> IF isVertical(position) /\ entries = <<>>
             THEN "TypeError" ELSE "none",
     position |-> position,
     alignment |-> alignment,
     boxSize |-> boxSize(opts),
     requiredSpace |->
         IF isVertical(position)
         THEN (IF entries = <<>> THEN Zero
               ELSE getRequiredSpaceFor(longest(entries), opts))
         ELSE RInt(boxSize(opts) + PADDING),
     data |-> entries]

\* new LegendManager(graph, data)
LegendManager(opts, entries) ==
    legendWithPosition(legendPosition(opts.legend.position),
                       legendAlignment(opts.legend.alignment), opts, entries)

\* draw(): xBegin and yBegin as the switch over the position sets them
legendBegin(lm, opts, pad, len, cv) ==
    IF lm.position = "top"
    THEN [x |-> len.x_begin,
          y |-> RAdd(RInt(PADDING),
                     IF opts.title.draw
                     THEN RAdd(RInt(opts.title.fontSize), pad.textPadding)
                     ELSE Zero)]
    ELSE IF lm.position = "bottom"
    THEN [x |-> len.x_begin,
          y |-> RAdd(RSub(RInt(cv.height), lm.requiredSpace),
                     pad.textPadding)]
    ELSE IF lm.position = "left"
    THEN [x |-> RInt(PADDING), y |-> len.y_begin]
    ELSE [x |-> RAdd(len.x_end, RInt(PADDING)), y |-> len.y_begin]

\* draw(): the required space of each entry
requiredSpaces(lm, opts) ==
    [i \in DOMAIN lm.data |->
        IF isVertical(lm.position)
        THEN RInt((IF i # Len(lm.data) THEN PADDING ELSE 0) + lm.boxSize)
        ELSE RAdd(getRequiredSpaceFor(lm.data[i], opts),
                  RInt(IF i # Len(lm.data) THEN PADDING ELSE 0))]

\* draw(): the begin values after the adjustment to the alignment
horizontalBegin(lm, begin, spaces, len) ==
    IF lm.alignment = "center"
    THEN [begin EXCEPT !.x = RAdd(RSub(len.x_center,
                                       RDiv(sum(spaces), RInt(2))),
                                  RInt(PADDING))]
    ELSE IF lm.alignment = "end"
    THEN [begin EXCEPT !.x = RSub(len.x_end, sum(spaces))]
    ELSE begin

verticalBegin(lm, begin, spaces, len, yLen) ==
    IF lm.alignment = "center"
    THEN [begin EXCEPT !.y =
             RSub(len.y_center,
                  sum(SubSeq(spaces, 1,
                             RRound(Rat(Len(spaces), 2)))))]
    ELSE IF lm.alignment = "end"
    THEN [begin EXCEPT !.y = RSub(RAdd(len.y_begin, yLen), sum(spaces))]
    ELSE begin

alignedBegin(lm, begin, spaces, len, yLen) ==
    IF isVertical(lm.position)
    THEN verticalBegin(lm, begin, spaces, len, yLen)
    ELSE horizontalBegin(lm, begin, spaces, len)

\* draw(): where entry idx (1-based) is drawn, and the begin values after
\* the last entry (idx = number of entries + 1)
entryPosition(lm, start, spaces, idx) ==
    IF isVertical(lm.position)
    THEN [start EXCEPT !.y = RAdd(@, sum(SubSeq(spaces, 1, idx - 1)))]
    ELSE [start EXCEPT !.x = RAdd(@, sum(SubSeq(spaces, 1, idx - 1)))]

\* drawLegend(): the text request of an entry drawn at pos
legendText(lm, pos) ==
    Request("text", RAdd(pos.x, RInt(lm.boxSize + PADDING)),
            RAdd(pos.y, Rat(lm.boxSize, 2)), Zero)

\* the number of failing assertions of the text request of entry idx
entryFailures(lm, start, spaces, idx, cv) ==
    failedCount(requestChecks(
        legendText(lm, entryPosition(lm, start, spaces, idx)), cv))

RECURSIVE sumTo(_, _)
sumTo(f, n) == IF n = 0 THEN 0 ELSE f[n] + sumTo(f, n - 1)

\* draw(): the loop over the entries.  failures[i] is the number of failing
\* assertions of entry i; without bypass the first failing entry throws and
\* the loop ends before the begin values are advanced
legendWalked(lm, spaces, start, failures, stop, bypass) ==
    [err |-> IF stop <= Len(lm.data) THEN "Error" ELSE "none",
     spaces |-> spaces,
     start |-> start,
     end |-> entryPosition(lm, start, spaces, stop),
     drawn |-> stop - 1,
     warned |-> IF bypass THEN sumTo(failures, Len(failures)) ELSE 0]

\* the index of the entry whose text request throws (number of entries + 1
\* when none does)
firstThrowing(failures, bypass) ==
    IF bypass \/ \A i \in DOMAIN failures : failures[i] = 0
    THEN Len(failures) + 1
    ELSE CHOOSE i \in DOMAIN failures :
             /\ failures[i] > 0
             /\ \A j \in 1..(i - 1) : failures[j] = 0

legendWalk(lm, spaces, start, failures, bypass) ==
    legendWalked(lm, spaces, start, failures,
                 firstThrowing(failures, bypass), bypass)

legendAligned(lm, spaces, start, cv, bypass) ==
    legendWalk(lm, spaces, start,
               [i \in DOMAIN lm.data |->
                   entryFailures(lm, start, spaces, i, cv)],
               bypass)

legendSpaced(lm, spaces, begin, len, yLen, cv, bypass) ==
    legendAligned(lm, spaces, alignedBegin(lm, begin, spaces, len, yLen),
                  cv, bypass)

\* LegendManager.draw()
legendDraw(lm, opts, pad, len, yLen, cv, bypass) ==
    legendSpaced(lm, requiredSpaces(lm, opts),
                 legendBegin(lm, opts, pad, len, cv), len, yLen, cv, bypass)

(***************************************************************************)
(* src/src/utils/assert.js: BasicGraph._drawLabels().                      *)
(***************************************************************************)
\* parseInt(text.substr(0, 2), 10) of the text of a positive integer
RECURSIVE firstTwoDigits(_)
firstTwoDigits(n) == IF n < 100 THEN n ELSE firstTwoDigits(n \div 10)

\* fontSize(): parseInt of the first two characters of ctx.font, which is
\* "<size>px <family>" for the size last set (toTextMode)
fontSize(font) == firstTwoDigits(font)

\* determinePositionFromSetting(setting).offset for a preset setting
determinePositionFromSetting(setting, len) ==
    IF setting = "start" THEN len.x_begin
    ELSE IF setting = "center" THEN len.x_center
    ELSE len.x_end

\* the text request of the title
titleRequest(opts, pad, len) ==
    Request("text", determinePositionFromSetting(opts.title.position, len),
            RDiv(RAdd(RInt(opts.title.fontSize), pad.textPadding), RInt(2)),
            Zero)

\* the title of _drawLabels(): a setting that is no preset fails the
\* assertion of determinePositionFromSetting(); when that is only logged the
\* function returns undefined, and destructuring it throws a TypeError
titleOutcome(opts, pad, len, cv, bypass) ==
    IF ~opts.title.draw
    THEN [err |-> "none", warned |-> 0, issued |-> FALSE]
    ELSE IF opts.title.position \in {"start", "center", "end"}
    THEN requestOutcome(titleRequest(opts, pad, len), cv, bypass)
    ELSE [err |-> IF bypass THEN "TypeError" ELSE "Error",
          warned |-> IF bypass THEN 1 ELSE 0, issued |-> FALSE]

\* labelXOffset: the space of a legend at the bottom
labelXOffset(opts, lm) ==
    IF opts.legend.draw /\ lm.position = "bottom"
    THEN lm.requiredSpace ELSE Zero

\* the text request of the X axis label
xLabelRequest(opts, lm, pad, len, cv, font) ==
    Request("text", len.x_center,
            RSub(RInt(cv.height),
                 RAdd(RAdd(Rat(fontSize(font), 2), pad.textPadding),
                      labelXOffset(opts, lm))),
            Zero)

\* _drawLabels() after the title; the title is drawn between ctx.save() and
\* ctx.restore(), the X axis label sets the font to fontSize() px
labelsAfterTitle(title, xLabel, opts, font) ==
    IF title.err # "none" \/ opts.labelFontSize = 0
    THEN [err |-> title.err, warned |-> title.warned, font |-> font]
    ELSE [err |-> xLabel.err, warned |-> title.warned + xLabel.warned,
          font |-> IF xLabel.issued THEN fontSize(font) ELSE font]

\* BasicGraph._drawLabels() with the font size font set in the context
drawLabels(opts, lm, pad, len, cv, bypass, font) ==
    labelsAfterTitle(
        titleOutcome(opts, pad, len, cv, bypass),
        requestOutcome(xLabelRequest(opts, lm, pad, len, cv, font), cv,
                       bypass),
        opts, font)

(***************************************************************************)
(* src/src/core/axis.js: Axis.determineAxisPosition() and Axis.draw().     *)
(* g is the graph the axis reads: [padding, xLength, yLength, lengths,     *)
(* gridRectSize, canvas, options, bypass, font].                           *)
(***************************************************************************)
Graph(pad, xl, yl, len, rect, cv, opts, bypass, font) ==
    [padding |-> pad, xLength |-> xl, yLength |-> yl, lengths |-> len,
     gridRectSize |-> rect, canvas |-> cv, options |-> opts,
     bypass |-> bypass, font |-> font]

\* config.scaleLabelFontSize (config.js is not among the source files; the
\* default of options.labelFontSize is taken)
ScaleLabelFontSize == 12

\* manager.sharedAxisZero
sharedAxisZero(opts) == opts.grid.sharedAxisZero

\* Array.prototype.reverse(): the array is reversed in place
reverse(arr) == [i \in DOMAIN arr |-> arr[Len(arr) + 1 - i]]

\* Array.prototype.indexOf(item): the first index (from 0), or -1
indexOf(arr, item) ==
    IF \E i \in DOMAIN arr : arr[i] = item
    THEN (CHOOSE i \in DOMAIN arr :
              /\ arr[i] = item
              /\ \A j \in 1..(i - 1) : arr[j] # item) - 1
    ELSE -1

\* determineAxisPosition(): yStart for the index zeroIndex of "0" in the
\* reversed Y labels; the assignment is not reached when the assertion
\* throws
yStartAt(g, zeroIndex, chk) ==
    IF chk = "throw" THEN RAdd(g.padding.top, g.yLength)
    ELSE RAdd(g.lengths.y_begin, RMul(g.gridRectSize.y, RInt(zeroIndex)))

positionAt(g, reversed, zeroIndex) ==
    [yStart |-> yStartAt(g, zeroIndex, assert(zeroIndex # -1, g.bypass)),
     yLabels |-> reversed,
     chk |-> assert(zeroIndex # -1, g.bypass)]

positionOver(g, reversed) ==
    positionAt(g, reversed, indexOf(reversed, ZeroLabel))

\* Axis.determineAxisPosition(): yStart, the Y scale labels of the manager
\* as the call leaves them, and the outcome of its assertion
determineAxisPosition(type, managerNegativeScale, yLabels, g) ==
    IF type = X_AXIS /\ managerNegativeScale
    THEN positionOver(g, reverse(yLabels))
    ELSE [yStart |-> RAdd(g.padding.top, g.yLength), yLabels |-> yLabels,
          chk |-> "pass"]

\* draw(): the labels that are drawn, each with the value of offset it is
\* drawn with; offset is incremented after a label that is drawn
RECURSIVE labelOffsets(_, _, _)
labelOffsets(labels, shared, offset) ==
    IF labels = <<>> THEN <<>>
    ELSE IF shared /\ labels[1] = ZeroLabel
    THEN labelOffsets(Tail(labels), shared, offset)
    ELSE <<[label |-> labels[1], offset |-> offset]>> \o
         labelOffsets(Tail(labels), shared, offset + 1)

\* let offset = this.manager.sharedAxisZero ? 1 : 0, then the loop
drawnLabels(labels, shared) ==
    labelOffsets(labels, shared, IF shared THEN 1 ELSE 0)

\* the Y axis: the tick and the text of the label with the offset k
yTick(g, k) ==
    Request("horizontalLine", RSub(g.lengths.x_begin, RInt(9)),
            RAdd(g.lengths.y_begin, RMul(RInt(k), g.gridRectSize.y)),
            RInt(9))

yTextAt(g, k) ==
    RSub(RAdd(g.padding.top, g.yLength), RMul(RInt(k), g.gridRectSize.y))

yText(g, k) ==
    Request("text",
            RSub(RSub(g.lengths.x_begin, RInt(9)), g.padding.textPadding),
            yTextAt(g, k), Zero)

\* the requests of the Y axis, in the order of the code
yAxisRequests(g, entries) ==
    <<Request("verticalLine", g.lengths.x_begin, g.lengths.y_begin,
              RAdd(g.yLength, RInt(9)))>> \o
    [j \in 1..(2 * Len(entries)) |->
        IF j % 2 = 1 THEN yTick(g, entries[(j + 1) \div 2].offset)
        ELSE yText(g, entries[j \div 2].offset)]

\* the X axis: the lines drawn before the labels
xAxisLines(g, yStart, managerNegativeScale) ==
    <<Request("horizontalLine", RSub(g.lengths.x_begin, RInt(9)), yStart,
              RAdd(g.xLength, RInt(9)))>> \o
    (IF managerNegativeScale /\ ~g.options.grid.gridded
     THEN <<Request("horizontalLine", g.lengths.x_begin,
                    RAdd(g.yLength, g.padding.top), g.xLength)>>
     ELSE <<>>)

xTextAt(g, k) == RAdd(g.lengths.x_begin, RMul(RInt(k), g.gridRectSize.x))

xTick(g, k) ==
    Request("verticalLine", xTextAt(g, k), RAdd(g.yLength, g.padding.top),
            RInt(9))

\* scale_offset = padding.textPadding + fontSize() / 2
scaleOffset(g) == RAdd(g.padding.textPadding, Rat(fontSize(g.font), 2))

xText(g, k) ==
    Request("text", xTextAt(g, k),
            RAdd(RAdd(RAdd(g.yLength, RInt(9)), g.padding.top),
                 scaleOffset(g)),
            Zero)

\* the requests of the X axis, in the order of the code
xAxisRequests(g, lines, entries) ==
    lines \o
    [j \in 1..(2 * Len(entries)) |->
        IF j % 2 = 1 THEN xTick(g, entries[(j + 1) \div 2].offset)
        ELSE xText(g, entries[j \div 2].offset)]

\* the labels whose text was issued when the requests before request stop
\* were: head requests come before the first label, two for each label
textsIssued(stop, head) ==
    IF stop - 1 <= head THEN 0 ELSE (stop - 1 - head) \div 2

\* the position a label is drawn at, along its axis
labelAt(type, g, k) == IF type = X_AXIS THEN xTextAt(g, k) ELSE yTextAt(g, k)

\* draw() that ends before request stop (the number of requests + 1 when
\* none throws)
axisDrawnTo(type, g, pos, entries, failures, head, stop) ==
    [err |-> IF stop <= Len(failures) THEN "Error" ELSE "none",
     warned |-> (IF pos.chk = "warn" THEN 1 ELSE 0) +
                (IF g.bypass THEN sumTo(failures, Len(failures)) ELSE 0),
     yStart |-> pos.yStart,
     yLabels |-> pos.yLabels,
     drawn |-> [i \in 1..textsIssued(stop, head) |->
                   [label |-> entries[i].label,
                    at |-> labelAt(type, g, entries[i].offset)]],
     font |-> IF textsIssued(stop, head) > 0 THEN ScaleLabelFontSize
              ELSE g.font]

axisRequested(type, g, pos, entries, failures, head) ==
    axisDrawnTo(type, g, pos, entries, failures, head,
                firstThrowing(failures, g.bypass))

axisRequests(type, g, pos, entries, reqs, head) ==
    axisRequested(type, g, pos, entries,
                  [j \in DOMAIN reqs |->
                      failedCount(requestChecks(reqs[j], g.canvas))],
                  head)

axisLines(type, g, pos, entries, lines) ==
    axisRequests(type, g, pos, entries,
                 IF type = X_AXIS THEN xAxisRequests(g, lines, entries)
                 ELSE yAxisRequests(g, entries),
                 IF type = X_AXIS THEN Len(lines) ELSE 1)

\* draw() after determineAxisPosition() returned pos
axisPositioned(type, labels, managerNegativeScale, g, pos) ==
    IF pos.chk = "throw"
    THEN [err |-> "Error", warned |-> 0, yStart |-> pos.yStart,
          yLabels |-> pos.yLabels, drawn |-> <<>>, font |-> g.font]
    ELSE axisLines(type, g, pos,
                   drawnLabels(labels, sharedAxisZero(g.options)),
                   xAxisLines(g, pos.yStart, managerNegativeScale))

\* Axis.draw() of the axis of the given type with the scale labels labels;
\* yLabels are the Y scale labels of the manager
axisDraw(type, labels, yLabels, managerNegativeScale, g) ==
    axisPositioned(type, labels, managerNegativeScale, g,
                   determineAxisPosition(type, managerNegativeScale,
                                         yLabels, g))

(***************************************************************************)
(* AxisManager.draw() (core/axis-manager.js is not among the source        *)
(* files): both axes are drawn, in either order.  manager.scaleNumbers.y   *)
(* is taken to be the scaleLabels array of the Y axis, the only Y labels   *)
(* the manager of spec.md section 3 holds.                                 *)
(***************************************************************************)
\* the X axis was drawn first, then the Y axis
axesXY(xd, yd) ==
    IF xd.err # "none"
    THEN [err |-> xd.err, warned |-> xd.warned, yStart |-> xd.yStart,
          yLabels |-> xd.yLabels, x |-> xd.drawn, y |-> <<>>,
          font |-> xd.font]
    ELSE [err |-> yd.err, warned |-> xd.warned + yd.warned,
          yStart |-> xd.yStart, yLabels |-> xd.yLabels, x |-> xd.drawn,
          y |-> yd.drawn, font |-> yd.font]

xFirst(managerNegativeScale, g, xd) ==
    axesXY(xd, axisDraw(Y_AXIS, xd.yLabels, xd.yLabels,
                        managerNegativeScale, [g EXCEPT !.font = xd.font]))

\* the Y axis was drawn first, then the X axis; before is the yStart the
\* X axis held
axesYX(yd, xd, before, yLabels) ==
    IF yd.err # "none"
    THEN [err |-> yd.err, warned |-> yd.warned, yStart |-> before,
          yLabels |-> yLabels, x |-> <<>>, y |-> yd.drawn, font |-> yd.font]
    ELSE [err |-> xd.err, warned |-> yd.warned + xd.warned,
          yStart |-> xd.yStart, yLabels |-> xd.yLabels, x |-> xd.drawn,
          y |-> yd.drawn, font |-> xd.font]

yFirst(xLabels, yLabels, managerNegativeScale, g, before, yd) ==
    axesYX(yd,
           axisDraw(X_AXIS, xLabels, yLabels, managerNegativeScale,
                    [g EXCEPT !.font = yd.font]),
           before, yLabels)

managerDraw(xIsFirst, xLabels, yLabels, managerNegativeScale, g, before) ==
    IF xIsFirst
    THEN xFirst(managerNegativeScale, g,
                axisDraw(X_AXIS, xLabels, yLabels, managerNegativeScale, g))
    ELSE yFirst(xLabels, yLabels, managerNegativeScale, g, before,
                axisDraw(Y_AXIS, yLabels, yLabels, managerNegativeScale, g))

(***************************************************************************)
(* src/src/basic.graph.js: BasicGraph._drawData(), with getPrevious and    *)
(* getNext of src/src/utils/arrays.js.  A point is kept in data            *)
(* coordinates [x, y]; indexes are those of the code (from 0).             *)
(***************************************************************************)
\* line.pos_data: the position {x: index, y: value} of each value
pointsOf(line) ==
    [i \in DOMAIN line.data |-> [x |-> RInt(i - 1), y |-> RInt(line.data[i])]]

\* arrays.getPrevious(index, data) and arrays.getNext(index, data)
getPrevious(index, points) ==
    IF index <= 0 THEN points[1] ELSE points[index]
getNext(index, points) ==
    IF index >= Len(points) - 1 THEN points[Len(points)]
    ELSE points[index + 2]

\* config.tension
Tension == Rat(1, 2)

\* interpolation.splineCurve(prev, current, next, tension), from spec.md
\* section 4.4: the tangent is tension * (next - prev)
splineCurve(prev, current, next, t) ==
    [prev |-> [x |-> RSub(current.x, RMul(t, RSub(next.x, prev.x))),
               y |-> RSub(current.y, RMul(t, RSub(next.y, prev.y)))],
     next |-> [x |-> RAdd(current.x, RMul(t, RSub(next.x, prev.x))),
               y |-> RAdd(current.y, RMul(t, RSub(next.y, prev.y)))]]

\* the loop for (k = 1; k < points.length - 1; k++) over splineCurve
controlPointsOf(points) ==
    [k \in 1..(Len(points) - 2) |->
        splineCurve(getPrevious(k, points), points[k + 1],
                    getNext(k, points), Tension)]

\* n times the commands cmds
RECURSIVE repeated(_, _)
repeated(cmds, n) == IF n <= 0 THEN <<>> ELSE cmds \o repeated(cmds, n - 1)

\* the path of one curve or segment
path(cmd) == <<"beginPath", "moveTo", cmd, "stroke", "closePath">>

\* a cubic line over n points: n - 3 bezier curves, then the two quadratic
\* curves.  points[0] of no point is undefined, and so is controlPoints[0]
\* of fewer than three points: reading a field of it throws a TypeError
cubicLine(n) ==
    IF n = 0
    THEN [err |-> "TypeError", cmds |-> <<"beginPath">>]
    ELSE IF n < 3
    THEN [err |-> "TypeError", cmds |-> <<"beginPath", "moveTo">>]
    ELSE [err |-> "none",
          cmds |-> repeated(path("bezierCurveTo"), n - 3)
                       \o path("quadraticCurveTo")
                       \o path("quadraticCurveTo")]

\* a line of straight segments over n points
linearLine(n) ==
    [err |-> "none", cmds |-> repeated(path("lineTo"), n - 1)]

\* axisManager.xAxisScaleNumbers: the indexes 0 .. maxLen - 1 (the X axis
\* has the index step 1, spec.md section 4.2)
xAxisScaleNumbers(len) == fillRange(len)

\* the circles of the points whose index is an X scale number
circlesOf(points, numbers) ==
    repeated(<<"circle">>,
             Cardinality({i \in DOMAIN points :
                             \E j \in DOMAIN numbers :
                                 RInt(numbers[j]) = points[i].x}))

\* one line of _drawData(): the control points (of a cubic line), the
\* curves or segments, and the circles unless an error was thrown
lineDrawn(line, points, curves, numbers) ==
    [err |-> curves.err,
     controlPoints |-> IF line.interpolation = "cubic"
                       THEN controlPointsOf(points) ELSE <<>>,
     cmds |-> IF curves.err = "none"
              THEN curves.cmds \o circlesOf(points, numbers)
              ELSE curves.cmds]

drawLine(line, numbers) ==
    lineDrawn(line, pointsOf(line),
              IF line.interpolation = "cubic"
              THEN cubicLine(Len(line.data))
              ELSE linearLine(Len(line.data)),
              numbers)

\* _drawData(): the lines in their order, up to the first that throws;
\* the result holds the outcome of each line that was started
RECURSIVE drawLines(_, _, _)
drawLines(lines, numbers, done) ==
    IF lines = <<>> \/ (done # <<>> /\ done[Len(done)].err # "none")
    THEN done
    ELSE drawLines(Tail(lines), numbers,
                   Append(done, drawLine(lines[1], numbers)))


(***************************************************************************)
(* State.                                                                  *)
(***************************************************************************)
VARIABLES
    bypassOutOfBoundsDrawing, \* config.bypassOutOfBoundsDrawing
    data,           \* the Y values of all lines (manager.data)
    maxLen,         \* dataManager.maxLen(): the length of the longest series
    options,        \* the merged options object
    canvas,         \* [width, height] of the canvas
    textWidth,      \* ctx.measureText(..).width of the labels measured
    pc,             \* what has run: "newX", "newY", "new", "constructed",
                    \* "failed", "drawn"
    xAxis,          \* axisManager.xAxis
    yAxis,          \* axisManager.yAxis
    padding,        \* graph.padding
    xLength,        \* graph.xLength
    yLength,        \* graph.yLength
    gridRectSize,   \* graph.gridRectSize, as built by the constructor and
                    \* changed by draw()
    lengths,        \* graph.lengths
    draws,          \* the number of draw() calls so far
    dataManager,    \* graph.dataManager.data: the lines of the graph
    legendManager,  \* graph.legendManager (NullLegend: null)
    legendLayout,   \* what the last LegendManager.draw() computed and drew
    thrown,         \* the error the last call raised ("none": it returned)
    warnings,       \* the assertion failures the last call only logged
    request,        \* the last request made to the Drawer
    ctx,            \* the commands the Drawer issued to the canvas context
    controlPoints,  \* the control points of the last cubic line drawn
    yStart,         \* axisManager.xAxis.yStart
    axisLabels,     \* the scale labels the last draw() drew on each axis,
                    \* each with its position along the axis
    font,           \* the font size of ctx.font (0: not set by the graph)
    call            \* the last call made: [op, label], label being the
                    \* argument of removeLineByLabel

axisInputs == <<bypassOutOfBoundsDrawing, data, maxLen, options, canvas,
                textWidth>>
graphState == <<padding, xLength, yLength, gridRectSize, lengths, draws>>
legendState == <<legendManager, legendLayout>>
outcome == <<thrown, warnings>>
drawerState == <<request, ctx, controlPoints>>
axisState == <<yStart, axisLabels, font>>
vars == <<bypassOutOfBoundsDrawing, data, maxLen, options, canvas, textWidth,
          pc, xAxis, yAxis, padding, xLength, yLength, gridRectSize, lengths,
          draws, dataManager, legendManager, legendLayout, thrown, warnings,
          request, ctx, controlPoints, yStart, axisLabels, font, call>>

(***************************************************************************)
(* Inputs.                                                                 *)
(***************************************************************************)
\* the Y values lines are built from
DataValues == {-12, -1, 0, 9, 19, 30, 40}

\* ascending series of distinct values with at least one value >= 0 (an
\* axis over data without any non-negative value hands Scale an undefined
\* minimum and maximum, which is outside this model)
DataSets ==
    {s \in UNION {[1..k -> DataValues] : k \in 1..MaxData} :
        /\ \A i, j \in DOMAIN s : i < j => s[i] < s[j]
        /\ \E i \in DOMAIN s : s[i] >= 0}

\* a line of the graph: its label (with the length of the label and the
\* width measureText() reports for it), its interpolation and its Y values
NewLine(label, chars, width, interpolation, values) ==
    [label |-> label, chars |-> chars, width |-> width,
     interpolation |-> interpolation, data |-> values]

\* the Y values of all lines, as the axis manager reads them
RECURSIVE yData(_)
yData(lines) ==
    IF lines = <<>> THEN <<>> ELSE lines[1].data \o yData(Tail(lines))

\* dataManager.generateLegendInfo(): the legend entry of each line
generateLegendInfo(lines) ==
    [i \in DOMAIN lines |->
        [label |-> lines[i].label, chars |-> lines[i].chars,
         width |-> lines[i].width]]

\* the values of a series of MaxSeries points: the given values, the last
\* one repeated
seriesOf(values) ==
    [i \in 1..MaxSeries |->
        values[IF i <= Len(values) THEN i ELSE Len(values)]]

\* scale.x.tickLabels: null, or an array of labels
NoTickLabels == [isArray |-> FALSE, items |-> <<>>]
TickLabelSets ==
    {NoTickLabels} \cup
    {[isArray |-> TRUE, items |-> s] :
        s \in UNION {[1..k -> {Text("Mon"), Text("Tue")}] :
                        k \in 0..MaxTickLabels}}

\* the defaults of defaultConfig
DefaultOptions ==
    [padding |-> 8, labelFontSize |-> 12,
     title |-> [draw |-> TRUE, position |-> "center", fontSize |-> 24],
     grid |-> [gridded |-> TRUE, strict |-> FALSE,
               optimiseSquareSize |-> TRUE, sharedAxisZero |-> TRUE],
     scale |-> [x |-> [ticks |-> 10, optimiseTicks |-> TRUE,
                       drawLabels |-> TRUE, tickLabels |-> NoTickLabels],
                y |-> [ticks |-> 10]],
     legend |-> [draw |-> FALSE, position |-> "top",
                 alignment |-> "center"]]

NullPadding == [top |-> Zero, left |-> Zero, right |-> Zero, bottom |-> Zero,
                textPadding |-> Zero]
NullLengths == [x_begin |-> Zero, y_begin |-> Zero, x_end |-> Zero,
                y_end |-> Zero, x_center |-> Zero, y_center |-> Zero]
NullRect == [x |-> Zero, y |-> Zero]

NullLayout ==
    [err |-> "null", spaces |-> <<>>, start |-> [x |-> Zero, y |-> Zero],
     end |-> [x |-> Zero, y |-> Zero], drawn |-> 0, warned |-> 0]
NullRequest == [kind |-> "", x |-> Zero, y |-> Zero, len |-> Zero]

NoGraph ==
    /\ padding = NullPadding
    /\ xLength = Zero
    /\ yLength = Zero
    /\ gridRectSize = NullRect
    /\ lengths = NullLengths
    /\ draws = 0
    /\ legendManager = NullLegend
    /\ legendLayout = NullLayout
    /\ thrown = "none"
    /\ warnings = 0
    /\ yStart = Zero
    /\ axisLabels = [x |-> <<>>, y |-> <<>>]
    /\ font = 0

Call(op, label) == [op |-> op, label |-> label]

\* no request was made to the Drawer
NoDrawing ==
    /\ call = Call("", "")
    /\ request = NullRequest
    /\ ctx = <<>>
    /\ controlPoints = <<>>

(***************************************************************************)
(* SpecAxis: the Axis constructor on its own, over one axis at a time.     *)
(***************************************************************************)
InitAxis ==
    /\ bypassOutOfBoundsDrawing \in BOOLEAN
    /\ canvas = [width |-> 0, height |-> 0]
    /\ textWidth = [yLongest |-> Zero, xLast |-> Zero]
    /\ xAxis = NullAxis
    /\ yAxis = NullAxis
    /\ dataManager = <<>>
    /\ NoGraph
    /\ NoDrawing
    /\ \/ /\ pc = "newX"
          /\ data = <<0>>
          /\ maxLen \in 1..MaxSeries
          /\ \E t \in (-1)..MaxTicks, o \in BOOLEAN, d \in BOOLEAN,
                l \in TickLabelSets :
                options = [DefaultOptions EXCEPT
                              !.scale.x = [ticks |-> t, optimiseTicks |-> o,
                                           drawLabels |-> d, tickLabels |-> l]]
       \/ /\ pc = "newY"
          /\ data \in DataSets
          /\ maxLen = 1
          /\ \E t \in (-1)..MaxTicks :
                options = [DefaultOptions EXCEPT !.scale.y.ticks = t]

\* new Axis(manager, AxisType.X_AXIS, options.scale.x)
NewXAxis ==
    /\ pc = "newX"
    /\ xAxis' = Axis(X_AXIS, data, maxLen, options.scale.x,
                     negativeScale(data), bypassOutOfBoundsDrawing)
    /\ pc' = "axis"
    /\ call' = Call("new Axis", "")
    /\ UNCHANGED <<axisInputs, yAxis, graphState, dataManager, legendState,
                   outcome, drawerState, axisState>>

\* new Axis(manager, AxisType.Y_AXIS, options.scale.y)
NewYAxis ==
    /\ pc = "newY"
    /\ yAxis' = Axis(Y_AXIS, data, maxLen, options.scale.y,
                     negativeScale(data), bypassOutOfBoundsDrawing)
    /\ pc' = "axis"
    /\ call' = Call("new Axis", "")
    /\ UNCHANGED <<axisInputs, xAxis, graphState, dataManager, legendState,
                   outcome, drawerState, axisState>>

NextAxis == NewXAxis \/ NewYAxis

SpecAxis == InitAxis /\ [][NextAxis]_vars


(***************************************************************************)
(* Spec: a graph is constructed and then drawn.                            *)
(***************************************************************************)
\* the Y values of the graphs explored
GraphData == {<<0, 9>>, <<-12, 0, 9>>, <<-1, 30, 40>>}
CanvasWidths == {220, 225, 231}
CanvasHeights == {200, 213}
\* widths measureText() reports for the longest Y label
YLabelWidths == {Rat(36, 5), Rat(72, 5)}
\* widths measureText() reports for the last X label ("" measures 0)
XLabelWidths == {Zero, Rat(36, 5)}

\* the measured width of the label "line_1"
LabelWidth == Rat(216, 5)

\* the graph is constructed with one line over the values d
OneLine(d) ==
    /\ dataManager = <<NewLine("line_1", 6, LabelWidth, "linear",
                               seriesOf(d))>>
    /\ data = yData(dataManager)
    /\ maxLen = MaxSeries

Init ==
    /\ pc = "new"
    /\ bypassOutOfBoundsDrawing \in BOOLEAN
    /\ \E d \in GraphData : OneLine(d)
    /\ \E tx \in 1..MaxTicks, ty \in 2..MaxTicks, st \in BOOLEAN,
          op \in BOOLEAN :
          options = [DefaultOptions EXCEPT
                        !.scale.x.ticks = tx, !.scale.y.ticks = ty,
                        !.grid.strict = st,
                        !.grid.optimiseSquareSize = op]
    /\ \E w \in CanvasWidths, h \in CanvasHeights :
          canvas = [width |-> w, height |-> h]
    /\ \E wy \in YLabelWidths, wx \in XLabelWidths :
          textWidth = [yLongest |-> wy, xLast |-> wx]
    /\ xAxis = NullAxis
    /\ yAxis = NullAxis
    /\ NoGraph
    /\ NoDrawing

\* the constructor after calculatePadding(): lengths, cell size, lengths
Layout(pad, raw, len) ==
    /\ padding' = pad
    /\ gridRectSize' = applyStrict(raw, options)
    /\ xLength' = len.xLength
    /\ yLength' = len.yLength
    /\ lengths' = len.lengths
    /\ draws' = 0

\* the error that ends the constructor: the first of the X axis, the Y axis
\* and the legend manager that threw ("null": no legend manager)
constructorError(x, y, lm) ==
    IF x.err # "none" THEN x.err
    ELSE IF y.err # "none" THEN y.err
    ELSE IF lm.err = "null" THEN "none" ELSE lm.err

\* the constructor after the axis manager built the axes x and y and the
\* legend manager lm was built; an error thrown by a constructor ends it
ConstructWith(x, y, lm, pad) ==
    /\ xAxis' = x
    /\ yAxis' = y
    /\ thrown' = constructorError(x, y, lm)
    /\ warnings' = x.warned + y.warned
    /\ legendLayout' = legendLayout
    /\ IF constructorError(x, y, lm) # "none"
       THEN /\ pc' = "failed"
            /\ legendManager' = legendManager
            /\ UNCHANGED <<graphState, font>>
       ELSE /\ pc' = "constructed"
            /\ legendManager' = lm
            /\ font' = options.labelFontSize
            /\ Layout(pad,
                      rawGridRectSize(canvas, pad, options,
                                      x.scaleLabels, y.scaleLabels),
                      calculateLengths(canvas, pad, options))

\* the legend manager the constructor builds: none unless legend.draw
newLegendManager(opts, lines) ==
    IF opts.legend.draw
    THEN LegendManager(opts, generateLegendInfo(lines))
    ELSE NullLegend

ConstructLegend(x, y, lm) ==
    ConstructWith(x, y, lm,
                  calculatePadding(initialPadding(options), options,
                                   textWidth, lm))

\* new BasicGraph(id, options, data): the axis manager builds both axes,
\* then the padding, the lengths and the grid cell size are computed
Construct ==
    /\ pc = "new"
    /\ ConstructLegend(Axis(X_AXIS, data, maxLen, options.scale.x,
                            negativeScale(data), bypassOutOfBoundsDrawing),
                       Axis(Y_AXIS, data, maxLen, options.scale.y,
                            negativeScale(data), bypassOutOfBoundsDrawing),
                       newLegendManager(options, dataManager))
    /\ call' = Call("new BasicGraph", "")
    /\ UNCHANGED <<axisInputs, dataManager, drawerState, yStart, axisLabels>>

\* draw(): padding.right as recomputed after the snap
snappedPadding(pad, x, numberOfSquares) ==
    [pad EXCEPT !.right =
        RSub(RInt(canvas.width),
             RAdd(RMul(x, RInt(numberOfSquares)), lengths.x_begin))]

\* draw() after the optimiseSquareSize block: calculateLengths(), then
\* yLength from the number of Y labels
Relayout(rect, len) ==
    /\ gridRectSize' = rect
    /\ xLength' = len.xLength
    /\ lengths' = len.lengths
    /\ yLength' = RMul(RInt(Len(yAxis.scaleLabels) - 1), rect.y)

DrawWithGrownPadding(rect, pad) ==
    /\ padding' = [pad EXCEPT !.right = RAdd(pad.right, One)]
    /\ Relayout(rect, calculateLengths(canvas, padding', options))

DrawWithStaleLengths(rect, pad) ==
    /\ padding' = pad
    /\ Relayout(rect, calculateLengths(canvas, padding, options))

DrawWith(rect, pad) ==
    /\ padding' = pad
    /\ Relayout(rect, calculateLengths(canvas, pad, options))

DrawSnapped(rect, numberOfSquares) ==
    DrawWith(rect, snappedPadding(padding, rect.x, numberOfSquares))

\* draw(): the layout pass, up to yLength
LayoutPass ==
    IF needsSnap(gridRectSize, options)
    THEN DrawSnapped(
             snapGridRectSize(
                 gridRectSize,
                 preferredSquareSize(gridRectSize.x, padding.right,
                                     Len(xAxis.scaleLabels) - 1),
                 options),
             Len(xAxis.scaleLabels) - 1)
    ELSE DrawWith(gridRectSize, padding)

\* the outcome of axisManager.draw() and _drawLabels() together: labels is
\* not reached when axes threw
afterAxes(axes, labels) ==
    IF axes.err # "none"
    THEN [err |-> axes.err, warned |-> axes.warned, font |-> axes.font]
    ELSE [err |-> labels.err, warned |-> axes.warned + labels.warned,
          font |-> labels.font]

\* the outcome of the drawing calls of draw(): those before the legend,
\* then legendManager?.draw() (layout.err is "null" without a legend
\* manager)
drawingOutcome(labels, layout) ==
    IF labels.err # "none" \/ layout.err = "null"
    THEN [err |-> labels.err, warned |-> labels.warned]
    ELSE [err |-> layout.err, warned |-> labels.warned + layout.warned]

\* the end of a call that drew the graph: the error of draw(), or else of
\* the assertion chk that follows it
Finish(out, chk) ==
    /\ thrown' = IF out.err # "none" THEN out.err
                 ELSE IF chk = "throw" THEN "Error" ELSE "none"
    /\ warnings' = out.warned +
                       (IF out.err = "none" /\ chk = "warn" THEN 1 ELSE 0)

\* draw(): the drawing calls after the layout pass; the text of a legend
\* entry sets the font to options.labelFontSize
DrawCalls(labels, layout, chk) ==
    /\ legendLayout' = IF labels.err = "none" /\ layout.err # "null"
                       THEN layout ELSE legendLayout
    /\ font' = IF labels.err = "none" /\ layout.err # "null"
                  /\ layout.drawn > 0
               THEN options.labelFontSize ELSE labels.font
    /\ Finish(drawingOutcome(labels, layout), chk)

\* draw() after axisManager.draw() with the outcome axes
DrawAxes(axes, chk) ==
    /\ yAxis' = [yAxis EXCEPT !.scaleLabels = axes.yLabels]
    /\ yStart' = axes.yStart
    /\ axisLabels' = [x |-> axes.x, y |-> axes.y]
    /\ \E labels \in {afterAxes(axes,
                                 drawLabels(options, legendManager,
                                            padding', lengths', canvas,
                                            bypassOutOfBoundsDrawing,
                                            axes.font))},
          layout \in {IF legendManager = NullLegend THEN NullLayout
                      ELSE legendDraw(legendManager, options, padding',
                                      lengths', yLength', canvas,
                                      bypassOutOfBoundsDrawing)} :
          DrawCalls(labels, layout, chk)

\* BasicGraph.draw(), followed by an assertion with outcome chk ("pass"
\* for draw() itself).  The layout pass assigns padding, the lengths and the
\* cell size; of the drawing calls that follow, axisManager.draw(),
\* _drawLabels() and legendManager?.draw() are followed through the Drawer
\* assertions.
DrawThen(chk) ==
    /\ LayoutPass
    /\ \E g \in {Graph(padding', xLength', yLength', lengths',
                        gridRectSize', canvas, options,
                        bypassOutOfBoundsDrawing, font)} :
          \E axes \in {managerDraw(xIsFirst, xAxis.scaleLabels,
                                   yAxis.scaleLabels, negativeScale(data),
                                   g, yStart) : xIsFirst \in BOOLEAN} :
              DrawAxes(axes, chk)
    /\ draws' = draws + 1
    /\ pc' = "drawn"

Draw ==
    /\ pc \in {"constructed", "drawn"}
    /\ draws < MaxDraws
    /\ DrawThen("pass")
    /\ call' = Call("draw", "")
    /\ UNCHANGED <<axisInputs, xAxis, dataManager, legendManager,
                   drawerState>>

Next == Construct \/ Draw

Spec == Init /\ [][Next]_vars

(***************************************************************************)
(* SpecLegend: graphs with a legend, constructed and drawn, over the       *)
(* legend and title settings.                                              *)
(***************************************************************************)
\* the lines a graph with a legend is built from: the label "WWW" measures
\* wider than the longer label "line_2"
LegendLines ==
    {NewLine("a", 1, Rat(36, 5), "linear", seriesOf(<<0, 9>>)),
     NewLine("line_2", 6, LabelWidth, "linear", seriesOf(<<0, 9>>)),
     NewLine("WWW", 3, RInt(60), "linear", seriesOf(<<0, 9>>))}

\* 1 .. MaxEntries lines with different labels
LegendData ==
    {s \in UNION {[1..k -> LegendLines] : k \in 1..MaxEntries} :
        \A i, j \in DOMAIN s : i # j => s[i].label # s[j].label}

LegendPositions == Pos \cup {Undefined, "diagonal"}
LegendAlignments == Alignment \cup {Undefined, "middle"}
TitlePositions == {"start", "center", "middle"}
LegendCanvasWidths == {150, 231}

InitLegend ==
    /\ pc = "new"
    /\ bypassOutOfBoundsDrawing \in BOOLEAN
    /\ dataManager \in LegendData
    /\ data = yData(dataManager)
    /\ maxLen = MaxSeries
    /\ \E p \in LegendPositions, a \in LegendAlignments,
          t \in TitlePositions :
          options = [DefaultOptions EXCEPT
                        !.scale.x.ticks = 5, !.scale.y.ticks = 4,
                        !.title.position = t,
                        !.legend = [draw |-> TRUE, position |-> p,
                                    alignment |-> a]]
    /\ \E w \in LegendCanvasWidths : canvas = [width |-> w, height |-> 200]
    /\ textWidth = [yLongest |-> Rat(72, 5), xLast |-> Rat(36, 5)]
    /\ xAxis = NullAxis
    /\ yAxis = NullAxis
    /\ NoGraph
    /\ NoDrawing

SpecLegend == InitLegend /\ [][Next]_vars

(***************************************************************************)
(* SpecDrawer: one request to a Drawer.                                    *)
(***************************************************************************)
DrawerCanvases == {[width |-> 200, height |-> 100],
                   [width |-> 100, height |-> 200]}
\* coordinates below, inside and beyond the canvases
Coordinates == {RInt(-1), Zero, RInt(50), RInt(150), RInt(201)}
\* the sizes text is requested with
FontSizes == {12, 24}
LineLengths == {RInt(-60), Zero, RInt(60)}

\* nothing of a graph is involved
NoAxes ==
    /\ data = <<>>
    /\ maxLen = 0
    /\ options = DefaultOptions
    /\ textWidth = [yLongest |-> Zero, xLast |-> Zero]
    /\ xAxis = NullAxis
    /\ yAxis = NullAxis
    /\ dataManager = <<>>

InitDrawer ==
    /\ pc = "drawer"
    /\ bypassOutOfBoundsDrawing \in BOOLEAN
    /\ canvas \in DrawerCanvases
    /\ NoAxes
    /\ NoGraph
    /\ NoDrawing

\* a request whose assertions had the outcome out: the context commands
\* follow unless an assertion threw
Requested(req, out, size) ==
    /\ request' = req
    /\ call' = Call(req.kind, "")
    /\ font' = IF req.kind = "text" /\ out.issued THEN size ELSE font
    /\ thrown' = out.err
    /\ warnings' = out.warned
    /\ ctx' = IF out.issued THEN ctx \o contextCommands(req) ELSE ctx
    /\ pc' = "requested"
    /\ UNCHANGED <<axisInputs, xAxis, yAxis, graphState, dataManager,
                   legendState, controlPoints, yStart, axisLabels>>

Handle(req, size) ==
    Requested(req, requestOutcome(req, canvas, bypassOutOfBoundsDrawing),
              size)

\* Drawer.circle(x, y, rad)
circle ==
    /\ pc = "drawer"
    /\ \E x \in Coordinates, y \in Coordinates :
          Handle(Request("circle", x, y, Zero), font)

\* Drawer.horizontalLine(x, y, len)
horizontalLine ==
    /\ pc = "drawer"
    /\ \E x \in Coordinates, y \in Coordinates, len \in LineLengths :
          Handle(Request("horizontalLine", x, y, len), font)

\* Drawer.verticalLine(x, y, len)
verticalLine ==
    /\ pc = "drawer"
    /\ \E x \in Coordinates, y \in Coordinates, len \in LineLengths :
          Handle(Request("verticalLine", x, y, len), font)

\* Drawer.text(text, x, y, size, colour, alignment)
text ==
    /\ pc = "drawer"
    /\ \E x \in Coordinates, y \in Coordinates, size \in FontSizes :
          Handle(Request("text", x, y, Zero), size)

NextDrawer == circle \/ horizontalLine \/ verticalLine \/ text

SpecDrawer == InitDrawer /\ [][NextDrawer]_vars

(***************************************************************************)
(* SpecLine: _drawData() over one or two lines of 0 .. MaxPoints points.   *)
(***************************************************************************)
\* the values lines are cut from
LineValues == <<0, 10, 5, 10, 0, 5, 10>>

LinesDrawn ==
    {NewLine("line_1", 6, LabelWidth, i, SubSeq(LineValues, 1, n)) :
        i \in {"cubic", "linear"}, n \in 0..MaxPoints}

RECURSIVE longestLine(_)
longestLine(lines) ==
    IF lines = <<>> THEN 0
    ELSE IF Len(lines[1].data) > longestLine(Tail(lines))
         THEN Len(lines[1].data) ELSE longestLine(Tail(lines))

InitLine ==
    /\ pc = "line"
    /\ bypassOutOfBoundsDrawing = FALSE
    /\ canvas = [width |-> 200, height |-> 100]
    /\ dataManager \in [1..1 -> LinesDrawn] \cup [1..2 -> LinesDrawn]
    /\ data = yData(dataManager)
    /\ maxLen = longestLine(dataManager)
    /\ options = DefaultOptions
    /\ textWidth = [yLongest |-> Zero, xLast |-> Zero]
    /\ xAxis = NullAxis
    /\ yAxis = NullAxis
    /\ NoGraph
    /\ NoDrawing

RECURSIVE commandsOf(_)
commandsOf(done) ==
    IF done = <<>> THEN <<>> ELSE done[1].cmds \o commandsOf(Tail(done))

\* _drawData() on a canvas that holds the commands before
DataDrawn(before, done) ==
    /\ controlPoints' = [i \in DOMAIN done |-> done[i].controlPoints]
    /\ ctx' = before \o commandsOf(done)
    /\ thrown' = IF done = <<>> THEN "none" ELSE done[Len(done)].err
    /\ warnings' = 0

\* BasicGraph._drawData() of src/src/basic.graph.js
drawData ==
    /\ pc = "line"
    /\ DataDrawn(ctx, drawLines(dataManager, xAxisScaleNumbers(maxLen), <<>>))
    /\ pc' = "lineDrawn"
    /\ call' = Call("_drawData", "")
    /\ UNCHANGED <<axisInputs, xAxis, yAxis, graphState, dataManager,
                   legendState, request, axisState>>

NextLine == drawData

SpecLine == InitLine /\ [][NextLine]_vars

(***************************************************************************)
(* SpecData: a graph whose lines are replaced (setData) or removed         *)
(* (removeLineByLabel) after its construction.                             *)
(***************************************************************************)
DataLines ==
    {NewLine("line_1", 6, LabelWidth, "linear", seriesOf(<<0, 9>>)),
     NewLine("line_2", 6, LabelWidth, "linear", seriesOf(<<-12, 0, 9>>)),
     NewLine("line_3", 6, LabelWidth, "cubic", seriesOf(<<-1, 30, 40>>))}

\* one or two lines with different labels
LineSets ==
    {s \in [1..1 -> DataLines] \cup [1..2 -> DataLines] :
        \A i, j \in DOMAIN s : i # j => s[i].label # s[j].label}

\* three lines, two of them with the label "line_1" and different values
Line1 == NewLine("line_1", 6, LabelWidth, "linear", seriesOf(<<0, 9>>))
Line2 == NewLine("line_2", 6, LabelWidth, "linear", seriesOf(<<-12, 0, 9>>))
SecondLine1 == NewLine("line_1", 6, LabelWidth, "linear", seriesOf(<<9, 19>>))
LineTriples == {<<Line1, Line2, SecondLine1>>, <<Line2, Line1, SecondLine1>>}

\* the lines setData is called with
ReplacementLines == {s \in LineSets : s[1].label = "line_1"}

\* the labels asked to be removed; no line is labelled "line_9"
RemovedLabels == {"line_1", "line_2", "line_3", "line_9"}

InitData ==
    /\ pc = "new"
    /\ bypassOutOfBoundsDrawing \in BOOLEAN
    /\ dataManager \in LineSets \cup LineTriples
    /\ data = yData(dataManager)
    /\ maxLen = MaxSeries
    /\ options = [DefaultOptions EXCEPT
                      !.scale.x.ticks = 5, !.scale.y.ticks = 4]
    /\ canvas = [width |-> 231, height |-> 200]
    /\ textWidth = [yLongest |-> Rat(72, 5), xLast |-> Rat(36, 5)]
    /\ xAxis = NullAxis
    /\ yAxis = NullAxis
    /\ NoGraph
    /\ NoDrawing

\* the lines without the first line labelled label
RECURSIVE removeFirst(_, _)
removeFirst(lines, label) ==
    IF lines = <<>> THEN <<>>
    ELSE IF lines[1].label = label THEN Tail(lines)
    ELSE <<lines[1]>> \o removeFirst(Tail(lines), label)

\* foundLine
foundLine(lines, label) == \E k \in DOMAIN lines : lines[k].label = label

\* BasicGraph.removeLineByLabel(label): the first line with the label is
\* spliced out, the graph is drawn, then foundLine is asserted
removeLineByLabel ==
    /\ pc \in {"constructed", "drawn"}
    /\ draws < MaxDraws
    /\ \E label \in RemovedLabels :
          /\ call' = Call("removeLineByLabel", label)
          /\ dataManager' = removeFirst(dataManager, label)
          /\ DrawThen(assert(foundLine(dataManager, label),
                             bypassOutOfBoundsDrawing))
    /\ UNCHANGED <<axisInputs, xAxis, legendManager, drawerState>>

\* BasicGraph.setData(_data) of src/src/basic.graph.js: a new DataManager,
\* then redraw(), which clears the canvas and draws with the axis manager
\* the constructor built; of its drawing, _drawData() is followed
setData ==
    /\ pc \in {"constructed", "drawn"}
    /\ call' = Call("setData", "")
    /\ \E lines \in ReplacementLines :
          /\ dataManager' = lines
          /\ DataDrawn(<<>>, drawLines(lines, xAxisScaleNumbers(maxLen),
                                       <<>>))
    /\ UNCHANGED <<axisInputs, pc, xAxis, yAxis, graphState, legendState,
                   request, axisState>>

NextData == Construct \/ Draw \/ setData \/ removeLineByLabel

SpecData == InitData /\ [][NextData]_vars
(***************************************************************************)
(* Properties of the Axis constructor (checked under SpecAxis).            *)
(***************************************************************************)
\* the Y axis (the X axis) was constructed without an error
YBuilt == pc = "axis" /\ yAxis.type = Y_AXIS /\ yAxis.err = "none"
XBuilt == pc = "axis" /\ xAxis.type = X_AXIS /\ xAxis.err = "none"
\* a Y axis with a negative and a positive scale was constructed
YSplit == YBuilt /\ negativeScale(data)

\* the value a numeric label is the text of
LabelValue(l) == parseFloat(l)

\* the scales of the Y axis as each computes its step on its own
OwnPositive ==
    LET mm == getMinMax(positiveAndZeroValues(data))
    IN  Scale(mm.min, mm.max,
              yTickCount(options.scale.y.ticks, negativeScale(data)),
              RNull, TRUE, FALSE)
OwnNegative ==
    Scale(0, Abs(getMinMax(negativeValues(data)).min),
          Rat(options.scale.y.ticks, 2), RNull, TRUE, TRUE)

\* C1: after constructing a Y axis over data with a negative value, the
\* positive and the negative scale have the same tick step, which is
\* Axis.scaleStep: the larger of the steps the two scales computed on their
\* own.
C1_StepsSynchronised ==
    YSplit =>
        /\ yAxis.positveScale.scaleStep = yAxis.negativeScale.scaleStep
        /\ yAxis.positveScale.scaleStep = yAxis.scaleStep
        /\ yAxis.scaleStep =
               RMax(OwnPositive.scaleStep, OwnNegative.scaleStep)

\* C1 witness: a split Y axis whose negative scale computed a larger step
\* than its positive scale, so that the positive scale's step was replaced
C1_Witness ==
    /\ YSplit
    /\ RLt(OwnPositive.scaleStep, OwnNegative.scaleStep)
    /\ yAxis.positveScale.scaleStep = OwnNegative.scaleStep

\* the axis the constructor ran for, and its ticks option
BuiltAxis == IF yAxis.type = Y_AXIS THEN yAxis ELSE xAxis
BuiltTicks ==
    IF yAxis.type = Y_AXIS THEN options.scale.y.ticks
    ELSE options.scale.x.ticks

\* C2 (as claimed): constructing an Axis with ticks <= 0 always raises the
\* assertion error and never enters the scale computation, whatever
\* bypassOutOfBoundsDrawing is.
C2_TickCountFatal ==
    (pc = "axis" /\ BuiltTicks <= 0) =>
        /\ BuiltAxis.err = "AssertionError"
        /\ ~BuiltAxis.computed

\* the indexes of the "0" labels of a label list
ZeroIndexes(labels) == {i \in DOMAIN labels : labels[i] = ZeroLabel}

\* C3: the labels of a split Y axis are the negative scale's labels
\* (ascending to zero, so descending in magnitude) followed by the positive
\* scale's labels, with the label "0" in them exactly once.
C3_ZeroLabelOnce ==
    YSplit =>
        LET negL == getScaleLabels(yAxis.negativeScale)
            posL == getScaleLabels(yAxis.positveScale)
            all  == yAxis.scaleLabels
            k    == Len(all) - Len(posL)
        IN  /\ k \in {Len(negL) - 1, Len(negL)}
            /\ SubSeq(all, 1, k) = SubSeq(negL, 1, k)
            /\ SubSeq(all, k + 1, Len(all)) = posL
            /\ \A i, j \in 1..Len(negL) :
                  i < j => /\ RLt(LabelValue(negL[i]), LabelValue(negL[j]))
                           /\ RLe(LabelValue(negL[j]), Zero)
            /\ Cardinality(ZeroIndexes(all)) = 1

\* C3 witness: a split Y axis whose two scales both produced a "0" label,
\* of which the negative one was removed
C3_Witness ==
    /\ YSplit
    /\ ZeroIndexes(getScaleLabels(yAxis.negativeScale)) # {}
    /\ ZeroIndexes(getScaleLabels(yAxis.positveScale)) # {}
    /\ Len(yAxis.scaleLabels) > 2

\* C4 (as claimed): two consecutive labels of a split Y axis always differ
\* by Axis.scaleStep, the two around the boundary included.
C4_UniformLabelSpacing ==
    YSplit =>
        \A i \in 1..(Len(yAxis.scaleLabels) - 1) :
            RSub(LabelValue(yAxis.scaleLabels[i + 1]),
                 LabelValue(yAxis.scaleLabels[i])) = yAxis.scaleStep

\* C5 (as claimed): a Y axis with ticks = T has exactly T + 1 labels, with
\* and without negative values.
C5_LabelCount ==
    YBuilt => Len(yAxis.scaleLabels) = options.scale.y.ticks + 1

\* C6 (as claimed): after the synchronisation each scale of a split Y axis
\* covers its data, and every value lies between the first and the last
\* label.
C6_ScalesCoverData ==
    YSplit =>
        LET pos == yAxis.positveScale
            neg == yAxis.negativeScale
            all == yAxis.scaleLabels
        IN  /\ RLe(RInt(getMax(positiveAndZeroValues(data))),
                   RAdd(pos.roundedMinimum,
                        RMul(pos.tickCount, pos.scaleStep)))
            /\ RLe(RInt(Abs(getMinMax(negativeValues(data)).min)),
                   RMul(neg.tickCount, neg.scaleStep))
            /\ \A i \in DOMAIN data :
                  /\ RLe(LabelValue(all[1]), RInt(data[i]))
                  /\ RLe(RInt(data[i]), LabelValue(all[Len(all)]))

\* C7 (as claimed): the tick step of the X axis is an integer >= 1 and no
\* generated X label is a fraction, with optimiseTicks on and off.
C7_IntegerXStep ==
    XBuilt =>
        /\ RIsInt(xAxis.scaleStep)
        /\ RLe(One, xAxis.scaleStep)
        /\ \A i \in DOMAIN xAxis.scaleLabels :
              IsNumeric(xAxis.scaleLabels[i]) =>
                  RIsInt(LabelValue(xAxis.scaleLabels[i]))

\* the X axis takes its labels from scale.x.tickLabels
UsesTickLabels ==
    options.scale.x.tickLabels.isArray /\ options.scale.x.drawLabels

Built == pc \in {"constructed", "drawn"}

\* the cell size the constructor computed before strict mode was applied
RawCell ==
    rawGridRectSize(canvas,
                    calculatePadding(initialPadding(options), options,
                                     textWidth, legendManager),
                    options, xAxis.scaleLabels, yAxis.scaleLabels)
RawMin == RMin(RawCell.x, RawCell.y)

\* C9: with grid.strict, gridRectSize.x = gridRectSize.y after construction
\* and after every draw(), with optimiseSquareSize on or off.
C9_StrictSquareCells ==
    (Built /\ options.grid.strict) => gridRectSize.x = gridRectSize.y

\* C9 witness: a strict graph whose fractional cell size was snapped to an
\* integer by draw(), and whose raw cell sizes differed
C9_Witness ==
    /\ pc = "drawn" /\ options.grid.strict
    /\ options.grid.optimiseSquareSize
    /\ RawCell.x # RawCell.y
    /\ ~RIsInt(RawMin)
    /\ gridRectSize.x # RawMin

\* C10 (as claimed): with grid.strict both cell sizes are the minimum of
\* the two raw cell sizes, and the graph draws with that size.
C10_StrictMinimumDrawn ==
    (Built /\ options.grid.strict) =>
        gridRectSize.x = RawMin /\ gridRectSize.y = RawMin

\* C10 (amended): with grid.strict the constructor sets both cell sizes to
\* the minimum of the two raw cell sizes; draw() keeps that size when
\* optimiseSquareSize is off or the size is an integer, and otherwise draws
\* with both sizes set to that minimum snapped to an integer: Math.round of
\* it, or one less.
C10_StrictMinimumThenSnapped ==
    (Built /\ options.grid.strict) =>
        /\ pc = "constructed" =>
              gridRectSize.x = RawMin /\ gridRectSize.y = RawMin
        /\ (pc = "drawn"
            /\ (~options.grid.optimiseSquareSize \/ RIsInt(RawMin))) =>
              gridRectSize.x = RawMin /\ gridRectSize.y = RawMin
        /\ (pc = "drawn" /\ options.grid.optimiseSquareSize
            /\ ~RIsInt(RawMin)) =>
              /\ gridRectSize.x = gridRectSize.y
              /\ gridRectSize.x \in {RInt(RRound(RawMin)),
                                     RInt(RRound(RawMin) - 1)}

\* C10 witness: a strict graph, constructed, whose raw cell sizes differ
\* and whose smaller one is not an integer
C10_Witness ==
    /\ pc = "constructed" /\ options.grid.strict
    /\ RawCell.x # RawCell.y
    /\ ~RIsInt(RawMin)
    /\ gridRectSize.x = RawMin

\* the x coordinate of the last X tick: x_begin + gridRectSize.x * (number
\* of X labels - 1)
LastXTick ==
    RAdd(lengths.x_begin,
         RMul(gridRectSize.x, RInt(Len(xAxis.scaleLabels) - 1)))

\* C11: after draw() the last X tick is not beyond the right edge of the
\* canvas and the recomputed padding.right is not negative, whether the
\* optimiseSquareSize pass rounded gridRectSize.x up or down.
C11_LastTickInsideCanvas ==
    pc = "drawn" =>
        /\ RLe(LastXTick, RInt(canvas.width))
        /\ RLe(Zero, padding.right)

\* C11 witness: a drawn graph whose raw cell size would have rounded up,
\* and was taken one down because the right padding could not take it
C11_Witness ==
    /\ pc = "drawn" /\ ~options.grid.strict
    /\ options.grid.optimiseSquareSize
    /\ RLt(RawCell.x, RInt(RRound(RawCell.x)))
    /\ gridRectSize.x = RInt(RRound(RawCell.x) - 1)
    /\ RLe(LastXTick, RInt(canvas.width))

\* the padding the constructor computed
ConstructorPadding ==
    calculatePadding(initialPadding(options), options, textWidth,
                     legendManager)

\* C12: after construction and after every draw() the lengths agree with
\* the padding and canvas size of that moment: x_begin = padding.left +
\* labelFontSize, x_end = canvas.width - padding.right, x_begin + xLength =
\* x_end, and x_center is the midpoint of x_begin and x_end.
C12_LengthsAgreeWithPadding ==
    Built =>
        /\ lengths.x_begin = RAdd(padding.left, RInt(options.labelFontSize))
        /\ lengths.x_end = RSub(RInt(canvas.width), padding.right)
        /\ RAdd(lengths.x_begin, xLength) = lengths.x_end
        /\ RMul(RInt(2), lengths.x_center) =
               RAdd(lengths.x_begin, lengths.x_end)

\* C12 witness: a drawn graph whose padding.right was changed by the snap of
\* draw(), with x_end following the new padding
C12_Witness ==
    /\ pc = "drawn"
    /\ padding.right # ConstructorPadding.right
    /\ lengths.x_end = RSub(RInt(canvas.width), padding.right)
    /\ lengths.x_end # RSub(RInt(canvas.width), ConstructorPadding.right)

\* C13 (as claimed): after construction with grid.strict off, the cell size
\* times the number of gaps is the extent the graph holds, in both
\* dimensions: gridRectSize.x * (X labels - 1) = xLength and
\* gridRectSize.y * (Y labels - 1) = yLength.
C13_CellsSpanExtents ==
    (pc = "constructed" /\ ~options.grid.strict) =>
        /\ RMul(gridRectSize.x, RInt(Len(xAxis.scaleLabels) - 1)) = xLength
        /\ RMul(gridRectSize.y, RInt(Len(yAxis.scaleLabels) - 1)) = yLength

(***************************************************************************)
(* Properties of the legend and the labels (checked under SpecLegend).     *)
(***************************************************************************)
\* C14: a legend position that is missing or none of top, bottom, left,
\* right is replaced by top, an alignment that is missing or none of start,
\* center, end is replaced by center, and the constructor of the legend
\* manager does not fail for such a value.
C14_LegendEnumFallback ==
    (pc # "new" /\ options.legend.draw) =>
        /\ pc # "failed"
        /\ legendManager.err = "none"
        /\ legendManager.position =
               (IF options.legend.position \in Pos
                THEN options.legend.position ELSE "top")
        /\ legendManager.alignment =
               (IF options.legend.alignment \in Alignment
                THEN options.legend.alignment ELSE "center")

\* C14 witness: a graph constructed with a position and an alignment that
\* are no presets, whose legend manager holds top and center
C14_Witness ==
    /\ pc = "constructed"
    /\ options.legend.position = "diagonal"
    /\ options.legend.alignment = "middle"
    /\ legendManager.err = "none"
    /\ legendManager.position = "top"
    /\ legendManager.alignment = "center"

\* an enum-valued option holds a value that is none of its presets
MalformedLegend ==
    \/ options.legend.position \notin Pos
    \/ options.legend.alignment \notin Alignment
MalformedTitle == options.title.position \notin {"start", "center", "end"}

\* C15 (as claimed): a malformed enum-valued option, a title.position that
\* is none of start, center, end included, never makes the construction or
\* draw() fail.
C15_EnumOptionsNeverFail ==
    /\ (pc # "new" /\ (MalformedLegend \/ MalformedTitle)) => pc # "failed"
    /\ (pc = "drawn" /\ MalformedTitle /\ options.title.draw) =>
           thrown = "none"

\* the legend was drawn by the last draw(), all its entries included
LegendDrawn == pc = "drawn" /\ legendLayout.err = "none"
HorizontalLegend == ~isVertical(legendManager.position)

\* C16 (as claimed): for a legend at the top or the bottom, the sum of the
\* spacings of the entries that draw() walks through equals the
\* requiredSpace the constructor computed and added to the padding.
C16_SpacingSumIsRequiredSpace ==
    (LegendDrawn /\ HorizontalLegend) =>
        /\ sum(legendLayout.spaces) = legendManager.requiredSpace
        /\ RSub(legendLayout.end.x, legendLayout.start.x) =
               legendManager.requiredSpace

\* the leading edge, the centre and the trailing edge of the plot along
\* the axis the legend is laid out on, and the offsets of the legend on it
PlotLeading ==
    IF HorizontalLegend THEN lengths.x_begin ELSE lengths.y_begin
PlotCenter ==
    IF HorizontalLegend THEN lengths.x_center ELSE lengths.y_center
PlotTrailing ==
    IF HorizontalLegend THEN lengths.x_end
    ELSE RAdd(lengths.y_begin, yLength)
LegendStart ==
    IF HorizontalLegend THEN legendLayout.start.x ELSE legendLayout.start.y
LegendEnd ==
    IF HorizontalLegend THEN legendLayout.end.x ELSE legendLayout.end.y

\* C17 (as claimed): the legend starts at the leading edge of the plot for
\* start, at the centre of the plot minus half the sum of the spacings for
\* center, and at the trailing edge minus the whole sum for end, so that
\* the offset after the last entry is the trailing edge; for horizontal and
\* vertical legends.
C17_LegendStartOffset ==
    LegendDrawn =>
        /\ legendManager.alignment = "start" => LegendStart = PlotLeading
        /\ legendManager.alignment = "center" =>
               LegendStart =
                   RSub(PlotCenter,
                        RDiv(sum(legendLayout.spaces), RInt(2)))
        /\ legendManager.alignment = "end" =>
               /\ LegendStart =
                      RSub(PlotTrailing, sum(legendLayout.spaces))
               /\ LegendEnd = PlotTrailing

(***************************************************************************)
(* Properties of the Drawer (checked under SpecDrawer).                    *)
(***************************************************************************)
\* the request made has a coordinate outside the canvas
OutOfBounds ==
    /\ pc = "requested"
    /\ \/ ~withinBounds(request.x, canvas.width)
       \/ ~withinBounds(request.y, canvas.height)

\* C18 (as claimed): a circle, horizontalLine, verticalLine or text request
\* with a coordinate outside the canvas raises an error without bypass;
\* with bypassOutOfBoundsDrawing it logs a warning and issues no command to
\* the context.
C18_OutOfBoundsSkipped ==
    OutOfBounds =>
        IF bypassOutOfBoundsDrawing
        THEN thrown = "none" /\ warnings >= 1 /\ ctx = <<>>
        ELSE thrown = "Error" /\ ctx = <<>>

(***************************************************************************)
(* Properties of _drawData() (checked under SpecLine).                     *)
(***************************************************************************)
\* the number of straight segments among the commands issued
Segments == Cardinality({i \in DOMAIN ctx : ctx[i] = "lineTo"})

\* C19 (as claimed): a cubic line over N < 3 points gets no control points,
\* raises no error and is drawn with straight segments (none for N < 2); a
\* cubic line over N >= 3 points gets exactly N - 2 control point pairs.
C19_ShortCubicLine ==
    pc = "lineDrawn" =>
        \A i \in DOMAIN controlPoints :
            dataManager[i].interpolation = "cubic" =>
                IF Len(dataManager[i].data) < 3
                THEN /\ controlPoints[i] = <<>>
                     /\ thrown = "none"
                     /\ Len(dataManager) = 1 =>
                            Segments = (IF Len(dataManager[i].data) < 2
                                        THEN 0
                                        ELSE Len(dataManager[i].data) - 1)
                ELSE Len(controlPoints[i]) = Len(dataManager[i].data) - 2

(***************************************************************************)
(* Properties of the data operations (checked under SpecData).             *)
(***************************************************************************)
\* the axes as the constructor of Axis builds them from the lines the graph
\* holds now
CurrentXAxis ==
    Axis(X_AXIS, yData(dataManager), longestLine(dataManager),
         options.scale.x, negativeScale(yData(dataManager)),
         bypassOutOfBoundsDrawing)
CurrentYAxis ==
    Axis(Y_AXIS, yData(dataManager), longestLine(dataManager),
         options.scale.y, negativeScale(yData(dataManager)),
         bypassOutOfBoundsDrawing)

\* C20 (as claimed): after setData or removeLineByLabel changed the lines of
\* a graph, the axes, scales and scale labels the next draw uses are built
\* from the lines the graph holds; no axis state of the lines before is
\* used.
C20_AxesFollowData ==
    (Built /\ dataManager # <<>>) =>
        /\ data = yData(dataManager)
        /\ xAxis = CurrentXAxis
        /\ yAxis = CurrentYAxis

(***************************************************************************)
(* Properties of a draw() that fails (checked under SpecLegend).           *)
(***************************************************************************)
\* the layout state of the graph
layoutState == <<padding, lengths, xLength, yLength, gridRectSize>>

\* a step that is a call of draw() which raised an error
DrawFailed == draws' = draws + 1 /\ thrown' # "none"

\* C21 (as claimed): when draw() raises an error, padding, lengths, xLength,
\* yLength and gridRectSize are the same as before the call.
C21_FailedDrawKeepsLayout == [][DrawFailed => UNCHANGED layoutState]_vars

(***************************************************************************)
(* removeLineByLabel(label), seen from its caller.                         *)
(***************************************************************************)
\* the positions of the lines labelled label
labelled(lines, label) == {k \in DOMAIN lines : lines[k].label = label}

\* lines with position k left out, the others in their order
without(lines, k) ==
    [i \in 1..(Len(lines) - 1) |-> IF i < k THEN lines[i] ELSE lines[i + 1]]

\* the step is a call of removeLineByLabel
RemoveCalled == call'.op = "removeLineByLabel" /\ draws' = draws + 1

\* a call with a label some line has leaves the list without the first such
\* line
RemovesFirstLabelled ==
    LET at == labelled(dataManager, call'.label)
    IN  at # {} =>
            \E k \in at :
                /\ \A j \in at : k <= j
                /\ dataManager' = without(dataManager, k)

\* a call with a label no line has leaves the list as it is
KeepsUnlabelled ==
    labelled(dataManager, call'.label) = {} => dataManager' = dataManager

\* a call with a label no line has ends in an error
MissingLabelRaises ==
    labelled(dataManager, call'.label) = {} => thrown' # "none"

\* C22 (as claimed): removeLineByLabel(label) removes exactly the first line
\* with the label and keeps the others in order; when no line has the label
\* the list is unchanged, the graph is redrawn and an error is raised
C22_RemoveLineByLabel ==
    [][RemoveCalled =>
           RemovesFirstLabelled /\ KeepsUnlabelled /\ MissingLabelRaises]_vars

(***************************************************************************)
(* Where Axis.draw() puts the scale labels.                                *)
(***************************************************************************)
\* the positions in labels that do not hold "0", in their order
nonZeroIndexes(labels) ==
    SelectSeq([k \in 1..Len(labels) |-> k],
              LAMBDA k : labels[k] # ZeroLabel)

\* the grid position of index k (from 0) on the X axis, from x_begin to the
\* right, and on the Y axis, from the lower end of the axis upwards
xGridPosition(len, rect, k) == RAdd(len.x_begin, RMul(RInt(k), rect.x))
yGridPosition(pad, yl, rect, k) ==
    RSub(RAdd(pad.top, yl), RMul(RInt(k), rect.y))

\* drawn holds every label of labels but "0", each at the grid position of
\* its own index
xLabelsAtIndex(labels, drawn, len, rect) ==
    /\ Len(drawn) = Len(nonZeroIndexes(labels))
    /\ \A i \in DOMAIN drawn :
          /\ drawn[i].label = labels[nonZeroIndexes(labels)[i]]
          /\ drawn[i].at =
                 xGridPosition(len, rect, nonZeroIndexes(labels)[i] - 1)

yLabelsAtIndex(labels, drawn, pad, yl, rect) ==
    /\ Len(drawn) = Len(nonZeroIndexes(labels))
    /\ \A i \in DOMAIN drawn :
          /\ drawn[i].label = labels[nonZeroIndexes(labels)[i]]
          /\ drawn[i].at =
                 yGridPosition(pad, yl, rect, nonZeroIndexes(labels)[i] - 1)

\* the step drew the graph without an error, with sharedAxisZero set
DrewShared ==
    /\ draws' = draws + 1
    /\ thrown' = "none"
    /\ options.grid.sharedAxisZero

\* the X labels of the step are at their own indexes
XDrawnAtIndex ==
    xLabelsAtIndex(xAxis'.scaleLabels, axisLabels'.x, lengths',
                   gridRectSize')

\* the Y labels of the step are at their own indexes, whichever way round
\* the labels were when drawn
YDrawnAtIndex ==
    \E ls \in {yAxis.scaleLabels, yAxis'.scaleLabels} :
        yLabelsAtIndex(ls, axisLabels'.y, padding', yLength', gridRectSize')

\* C23 (as claimed): with sharedAxisZero, Axis.draw() leaves out only the
\* "0" label and draws every other label at index * gridRectSize from the
\* start of its axis, the labels below zero of a split Y axis included
C23_LabelsAtOwnIndex == [][DrewShared => XDrawnAtIndex /\ YDrawnAtIndex]_vars

(***************************************************************************)
(* The cell size draw() chooses.                                           *)
(***************************************************************************)
\* the step is a draw() of a graph with optimiseSquareSize on
DrewOptimised == draws' = draws + 1 /\ options.grid.optimiseSquareSize

\* what is left of padding.right when the cells grow from raw to rounded
rightBudget(raw, rounded) ==
    RSub(padding.right,
         RMul(RSub(rounded, raw), RInt(Len(xAxis.scaleLabels) - 1)))

\* the cell size of the rule for raw, whose Math.round is rounded
snapRule(raw, rounded) ==
    IF RIsInt(raw) THEN raw
    ELSE IF RLt(rounded, raw) THEN rounded
    ELSE IF RLe(Zero, rightBudget(raw, rounded)) THEN rounded
    ELSE RSub(rounded, One)

\* C24: draw() with optimiseSquareSize on sets a fractional gridRectSize.x
\* = raw to round(raw) when that is below raw, or above raw with
\* padding.right - (round(raw) - raw) * (X labels - 1) >= 0, and to
\* round(raw) - 1 otherwise; an integer gridRectSize.x is left unchanged.
C24_SnapRule ==
    [][DrewOptimised =>
           gridRectSize'.x =
               snapRule(gridRectSize.x, RInt(RRound(gridRectSize.x)))]_vars

\* C24 witness: a first draw() that took a round-up of the raw cell size,
\* which the right padding of the constructor could take
C24_Witness ==
    /\ pc = "drawn" /\ draws = 1 /\ ~options.grid.strict
    /\ options.grid.optimiseSquareSize
    /\ RLt(RawCell.x, RInt(RRound(RawCell.x)))
    /\ RLe(Zero,
           RSub(ConstructorPadding.right,
                RMul(RSub(RInt(RRound(RawCell.x)), RawCell.x),
                     RInt(Len(xAxis.scaleLabels) - 1))))
    /\ gridRectSize.x = RInt(RRound(RawCell.x))

(***************************************************************************)
(* The X axis position over repeated draws.                                *)
(***************************************************************************)
\* the step is a draw() of a graph whose data has a negative value
DrewNegative == draws' = draws + 1 /\ negativeScale(data)

\* the step leaves the Y scale labels in their order
YLabelsKept == yAxis'.scaleLabels = yAxis.scaleLabels

\* a draw() after the first leaves yStart where the draw before put it
YStartKept == draws >= 1 => yStart' = yStart

\* C25 (as claimed): drawing leaves the order of the Y axis scale labels
\* unchanged, so on a graph with negative values yStart is the same on the
\* first, the second and every later draw()
C25_YStartStable == [][DrewNegative => YLabelsKept /\ YStartKept]_vars

(***************************************************************************)
(* The layout over repeated draws.                                         *)
(***************************************************************************)
\* the step is a draw() of a graph that was drawn before, without an error
\* then or now
DrewAgain ==
    /\ call'.op = "draw"
    /\ draws >= 1 /\ draws' = draws + 1
    /\ thrown = "none" /\ thrown' = "none"

\* C26 (as claimed): a draw() after the first, with the data and options
\* unchanged, leaves padding, lengths, xLength, yLength and gridRectSize as
\* the draw before left them
C26_DrawIdempotent == [][DrewAgain => UNCHANGED layoutState]_vars

\* C26 witness: a graph drawn twice whose first draw() snapped the cell size
\* and changed padding.right
C26_Witness ==
    /\ pc = "drawn" /\ draws = 2 /\ thrown = "none"
    /\ options.grid.optimiseSquareSize
    /\ gridRectSize.x # RawCell.x
    /\ padding.right # ConstructorPadding.right

(***************************************************************************)
(* SpecNarrow: graphs on canvases a few pixels wider than the space the    *)
(* padding takes, constructed and drawn.                                   *)
(***************************************************************************)
NarrowWidths == {50, 51, 52, 53, 58}

InitNarrow ==
    /\ pc = "new"
    /\ bypassOutOfBoundsDrawing \in BOOLEAN
    /\ \E d \in GraphData : OneLine(d)
    /\ \E tx \in 1..MaxTicks, st \in BOOLEAN, op \in BOOLEAN :
          options = [DefaultOptions EXCEPT
                        !.scale.x.ticks = tx, !.scale.y.ticks = 4,
                        !.grid.strict = st,
                        !.grid.optimiseSquareSize = op]
    /\ \E w \in NarrowWidths : canvas = [width |-> w, height |-> 200]
    /\ \E wx \in XLabelWidths :
          textWidth = [yLongest |-> Rat(36, 5), xLast |-> wx]
    /\ xAxis = NullAxis
    /\ yAxis = NullAxis
    /\ NoGraph
    /\ NoDrawing

SpecNarrow == InitNarrow /\ [][Next]_vars

\* the step is a draw() with optimiseSquareSize on of a graph whose cell
\* size is positive
DrewPositive ==
    /\ draws' = draws + 1
    /\ options.grid.optimiseSquareSize
    /\ RLt(Zero, gridRectSize.x)

\* C27 (as claimed): after the optimiseSquareSize pass of draw()
\* gridRectSize.x is above 0 for every raw cell size above 0, a raw size
\* below 0.5 and a raw size between 0.5 and 1 whose round-up is rejected
\* included
C27_CellSizePositive == [][DrewPositive => RLt(Zero, gridRectSize'.x)]_vars

(***************************************************************************)
(* The vertical extent of a strict grid.                                   *)
(***************************************************************************)
\* yLength is the number of Y gaps times the cell height
YLengthOfCells ==
    yLength = RMul(RInt(Len(yAxis.scaleLabels) - 1), gridRectSize.y)

\* the plot ends above the bottom padding
InsideVertically ==
    RLe(RAdd(padding.top, yLength),
        RSub(RInt(canvas.height), padding.bottom))

\* C28 (as claimed): with grid.strict and optimiseSquareSize on, after
\* draw() padding.top + yLength, with yLength = (Y labels - 1) *
\* gridRectSize.y, is at most canvas.height - padding.bottom, also when the
\* snapped cell size was rounded up
C28_StrictInsideVertically ==
    (pc = "drawn" /\ options.grid.strict /\ options.grid.optimiseSquareSize)
        => YLengthOfCells /\ InsideVertically

(***************************************************************************)
(* The bounds of the Drawer's line requests.                               *)
(***************************************************************************)
\* 0 <= v <= limit
between(v, limit) == RLe(Zero, v) /\ RLe(v, RInt(limit))

\* the request handled last passed every assertion
RequestPassed == thrown = "none" /\ warnings = 0

\* the start of the request handled last is on the canvas
StartOnCanvas ==
    between(request.x, canvas.width) /\ between(request.y, canvas.height)

\* the far end of the line handled last is on the canvas
EndOnCanvas ==
    IF request.kind = "verticalLine"
    THEN between(RAdd(request.y, request.len), canvas.height)
    ELSE between(RAdd(request.x, request.len), canvas.width)

\* C29 (as claimed): verticalLine(x, y, len) passes its assertions exactly
\* when 0 <= x <= width, 0 <= y <= height and 0 <= y + len <= height, and
\* horizontalLine(x, y, len) exactly when 0 <= x <= width, 0 <= y <= height
\* and 0 <= x + len <= width
C29_LineBounds ==
    request.kind \in {"verticalLine", "horizontalLine"} =>
        (RequestPassed <=> (StartOnCanvas /\ EndOnCanvas))

(***************************************************************************)
(* The space of a vertical legend.                                         *)
(***************************************************************************)
\* the graph has a legend on its left or right
VerticalLegend ==
    /\ Built
    /\ legendManager.err = "none"
    /\ isVertical(legendManager.position)

\* C30 (as claimed): for a legend on the left or right, requiredSpace is at
\* least getRequiredSpaceFor(label) of every entry, whatever widths the
\* measurement of the labels reports
C30_RequiredSpaceCoversEntries ==
    VerticalLegend =>
        \A i \in DOMAIN legendManager.data :
            RLe(getRequiredSpaceFor(legendManager.data[i], options),
                legendManager.requiredSpace)

=============================================================================
